---- MODULE Spec2Model ----
(***************************************************************************)
(* Operational scripts of largo-chat: the Milvus standalone -> cluster     *)
(* upgrade orchestrator (scripts/upgrade-milvus-to-cluster.sh) with its    *)
(* backup and restore jobs, the endpoint poll, the deploy script and the   *)
(* EKS access bootstrap scripts.  Every external CLI (aws, kubectl, helm)  *)
(* is a fake: its exit status and output are inputs drawn with \E, and     *)
(* every invocation is appended to `trace`.                                *)
(*                                                                         *)
(* Strings the code inspects (answers typed at a prompt, type names that   *)
(* are matched by substring) are sequences of one-character strings.       *)
(***************************************************************************)
EXTENDS Integers, Sequences, FiniteSets, TLC

VARIABLES
  script,     \* which script this run executes
  pc,         \* position in the script
  exitCode,   \* Running while the shell process lives, else its exit status
  trace,      \* stage events and external CLI invocations, in order
  out,        \* set of messages printed so far
  env,        \* names of the environment variables that are set (non-empty)
  tools,      \* commands found by `command -v`
  envFile,    \* lambda/.env exists
  proceed,    \* answer read at the CONFIRM prompt
  bucket,     \* the backup bucket exists
  infoFile,   \* content of milvus-backup-info.env ("none" when absent)
  jobStatus,  \* .status.succeeded of the backup job is 1
  continue_anyway, \* answer read at the backup-failure prompt
  db,         \* the Milvus database: collection name -> [exists, fields, indexed]
  dbAtBackup, \* history: db when the backup job listed the collections
  dbAtRestore,\* history: db when the restore job started
  s3,         \* objects under backup-<TIMESTAMP>/ : <<collection, file>> -> body
  todo,       \* collections the running job's loop still has to process
  attempt,    \* i of the running job's connection loop
  slept,      \* seconds the running job has spent in time.sleep
  reachableAt,\* environment: job -> the attempt at which Milvus answers (0: never)
  raises,     \* environment: <<collection, call>> pairs whose library call raises
  elapsed,    \* ELAPSED of wait_for_lb
  ret,        \* $? after wait_for_lb (NotReturned before)
  externalIp, \* EXTERNAL_IP read by the last poll
  lambdaHost, \* MILVUS_HOST in the Lambda configuration
  MILVUS_ENDPOINT, \* the hostname the main part re-read after wait_for_lb
  vpcSubnets, \* environment: the subnets of the cluster's VPC, each with its kind
  subnetTags, \* the tags each subnet carries
  SUBNET_IDS, \* the subnets the tagging loop still has to visit
  iam,        \* IAM policies and roles of the account
  attached,   \* <<role, policy>> attachments
  clock,      \* the wall clock in seconds, date +%s
  runNo,      \* how many runs of the script have been started
  firstRun,   \* history: IAM objects and exit status when the first run ended
  awsAuth,    \* the cluster's aws-auth ConfigMap
  serviceAccount, \* the aws-load-balancer-controller ServiceAccount as this run applied it
  runs        \* concurrent runs of setup_eks_access: position, IAM_ARN, patch file

shellVars == <<script, pc, exitCode, trace, out, env, tools, envFile>>
upgVars == <<proceed, bucket, infoFile, jobStatus, continue_anyway>>
envVars == <<reachableAt, raises>>
jobVars == <<db, dbAtBackup, dbAtRestore, s3, todo, attempt, slept, envVars>>
vpcVars == <<vpcSubnets, subnetTags, SUBNET_IDS>>
lbVars == <<elapsed, ret, externalIp, lambdaHost, MILVUS_ENDPOINT, vpcVars>>
clusterVars == <<awsAuth, serviceAccount, runs>>
iamVars == <<iam, attached, clock, runNo, firstRun, clusterVars>>
vars == <<shellVars, upgVars, jobVars, lbVars, iamVars>>

Running == -1

----------------------------------------------------------------------------
(* Generic helpers *)

Has(seq, x) == \E i \in 1..Len(seq) : seq[i] = x

IndexOf(seq, x) == CHOOSE i \in 1..Len(seq) : seq[i] = x

Count(seq, x) == Cardinality({i \in 1..Len(seq) : seq[i] = x})

----------------------------------------------------------------------------
(* scripts/upgrade-milvus-to-cluster.sh *)

UpgradeEnvNames ==
  {"AWS_REGION", "EKS_CLUSTER_NAME", "EKS_NAMESPACE", "MILVUS_BUCKET_NAME",
   "MILVUS_BACKUP_BUCKET_NAME", "AWS_ACCESS_KEY_ID", "AWS_SECRET_ACCESS_KEY"}

AllTools == {"aws", "kubectl", "helm", "jq"}

\* Answers an operator may type at a (y/N) prompt.
Answers ==
  {<< >>, <<"y">>, <<"Y">>, <<"n">>, <<"N">>, <<"y", "e", "s">>, <<"Y", "y">>}

\* [[ "$x" =~ ^[Yy]$ ]] : case-sensitive match of exactly one character.
MatchesYesUnanchored(s) == \E i \in 1..Len(s) : s[i] \in {"y", "Y"}

MatchesYes(s) == Len(s) = 1 /\ s[1] \in {"y", "Y"}

\* Lines 17-60: what makes the preamble exit 1.  AWS_REGION, EKS_NAMESPACE and
\* MILVUS_BACKUP_BUCKET_NAME get defaults instead (lines 12-15, 22-25, 33-36).
UpgradeMissing(e, t) ==
  \/ "EKS_CLUSTER_NAME" \notin e
  \/ "MILVUS_BUCKET_NAME" \notin e
  \/ "AWS_ACCESS_KEY_ID" \notin e \/ "AWS_SECRET_ACCESS_KEY" \notin e
  \/ ~({"aws", "kubectl", "helm"} \subseteq t)

\* Main script flow (lines 611-631): the stage that follows each stage.
AfterStageUpgradeFirst(s) ==
  CASE s = "check_resources" -> "confirm"
    [] s = "confirm" -> "upgrade"
    [] s = "upgrade" -> "backup"
    [] s = "backup" -> "restore"
    [] s = "restore" -> "verify"
    [] s = "verify" -> "done"

AfterStage(s) ==
  CASE s = "check_resources" -> "confirm"
    [] s = "confirm" -> "backup"
    [] s = "backup" -> "upgrade"
    [] s = "upgrade" -> "restore"
    [] s = "restore" -> "verify"
    [] s = "verify" -> "done"

\* Lines 11-60: defaults are assigned, required variables and tools abort.
UpgradeEnvChecks ==
  /\ script = "upgrade" /\ pc = "start"
  /\ IF UpgradeMissing(env, tools)
       THEN /\ pc' = "done" /\ exitCode' = 1
            /\ out' = out \cup {"not set or not installed"}
            /\ env' = env
       ELSE /\ pc' = "check_resources" /\ exitCode' = exitCode
            /\ out' = out \cup
                 {"Using default" : x \in {"AWS_REGION", "EKS_NAMESPACE",
                                          "MILVUS_BACKUP_BUCKET_NAME"} \ env}
            /\ env' = env \cup {"AWS_REGION", "EKS_NAMESPACE",
                                "MILVUS_BACKUP_BUCKET_NAME"}
  /\ UNCHANGED <<script, trace, tools, envFile, upgVars, jobVars, lbVars, iamVars>>

\* check_cluster_resources (lines 63-90): read-only queries, warnings only.
CheckClusterResources ==
  /\ script = "upgrade" /\ pc = "check_resources"
  /\ \E fewNodes \in BOOLEAN, gp2 \in BOOLEAN :
       out' = out \cup (IF fewNodes THEN {"Warning: Found only few nodes"} ELSE {})
                  \cup (IF gp2 THEN {} ELSE {"Warning: gp2 storage class not found"})
  /\ trace' = trace \o <<"enter:CHECK_RESOURCES", "kubectl get nodes",
                         "kubectl get storageclass", "exit:CHECK_RESOURCES">>
  /\ pc' = AfterStage("check_resources")
  /\ UNCHANGED <<script, exitCode, env, tools, envFile, upgVars, jobVars, lbVars, iamVars>>

\* Lines 613-625: the CONFIRM gate.
Confirm ==
  /\ script = "upgrade" /\ pc = "confirm"
  /\ \E a \in Answers :
       /\ proceed' = a
       /\ IF ~MatchesYes(a)
            THEN /\ pc' = "done" /\ exitCode' = 0
                 /\ out' = out \cup {"Upgrade aborted."}
                 /\ trace' = trace \o <<"enter:CONFIRM">>
            ELSE /\ pc' = AfterStage("confirm") /\ exitCode' = exitCode
                 /\ out' = out
                 /\ trace' = trace \o <<"enter:CONFIRM", "exit:CONFIRM">>
  /\ UNCHANGED <<script, env, tools, envFile, bucket, infoFile, jobStatus, continue_anyway,
                 jobVars, lbVars, iamVars>>

\* Lines 251-269: what follows the job status test.
BackupGateNeverAborts(succeeded, a) ==
  IF succeeded THEN "saved" ELSE "continue"

BackupGate(succeeded, a) ==
  IF succeeded THEN "saved"
  ELSE IF MatchesYes(a) THEN "continue" ELSE "abort"

\* create_backup (lines 93-272): bucket, job, bounded wait, status gate.
CreateBackup ==
  /\ script = "upgrade" /\ pc = "backup"
  /\ \E mbOk \in BOOLEAN, succeeded \in BOOLEAN, a \in Answers :
       /\ bucket' = (bucket \/ mbOk)
       /\ jobStatus' = succeeded
       /\ continue_anyway' = IF succeeded THEN continue_anyway ELSE a
       /\ LET submitted ==
                trace \o <<"enter:BACKUP", "aws s3api head-bucket">>
                      \o (IF bucket THEN << >> ELSE <<"aws s3 mb">>)
                      \o <<"kubectl apply -f milvus-backup-job.yaml",
                           "kubectl wait job/milvus-backup --timeout=300s",
                           "kubectl get job milvus-backup">>
              gate == BackupGate(succeeded, a)
          IN CASE gate = "saved" ->
                    /\ infoFile' = "backup-new"
                    /\ out' = out \cup {"Backup completed successfully"}
                    /\ trace' = submitted \o <<"exit:BACKUP">>
                    /\ pc' = AfterStage("backup") /\ exitCode' = exitCode
               [] gate = "continue" ->
                    /\ infoFile' = infoFile
                    /\ out' = out \cup {"Backup failed. Check job logs:",
                                         "Do you want to continue with the upgrade anyway? (y/N)"}
                    /\ trace' = submitted \o
                                   <<"kubectl logs job/milvus-backup", "exit:BACKUP">>
                    /\ pc' = AfterStage("backup") /\ exitCode' = exitCode
               [] gate = "abort" ->
                    /\ infoFile' = infoFile
                    /\ out' = out \cup {"Backup failed. Check job logs:",
                                         "Do you want to continue with the upgrade anyway? (y/N)",
                                         "Upgrade aborted."}
                    /\ trace' = submitted \o <<"kubectl logs job/milvus-backup">>
                    /\ pc' = "done" /\ exitCode' = 1
  /\ UNCHANGED <<script, env, tools, envFile, proceed, jobVars, lbVars, iamVars>>

\* The scripts that start with `set -e`; the upgrade script does not.
ErrExitEverywhere(s) == TRUE

ErrExit(s) == s \in {"deploy", "access_setup", "direct_access"}

\* The commands of a step that end the script when they fail.
Unguarded(cmds) == IF ErrExit(script) THEN cmds ELSE {}

\* A wait whose non-zero status would end the function.
ReadinessFatalOnTimeout(podsReady) == ~podsReady

\* Line 332: `kubectl wait ... --timeout=600s || true`: the status of the wait
\* is discarded, whether the pods became ready or not.
ReadinessFatal(podsReady) == FALSE

\* A helm upgrade whose failure ends the script.
HelmFailureFatalAlways(helmOk) == ~helmOk

\* Lines 289-318: helm upgrade is a plain command whose status is not tested;
\* its failure would end the script only under set -e.
HelmFailureFatal(helmOk) == ~helmOk /\ ErrExit(script)

\* upgrade_to_cluster (lines 275-339): helm upgrade, fixed sleep, bounded wait.
UpgradeToCluster ==
  /\ script = "upgrade" /\ pc = "upgrade"
  /\ \E helmOk \in BOOLEAN, podsReady \in BOOLEAN :
       IF HelmFailureFatal(helmOk)
         THEN /\ out' = out \cup {"Error: UPGRADE FAILED"}
              /\ trace' = trace \o <<"enter:UPGRADE", "helm repo update", "helm get values",
                                     "helm upgrade">>
              /\ pc' = "done" /\ exitCode' = 1
         ELSE IF ReadinessFatal(podsReady)
         THEN /\ out' = out \cup {"Upgrade command executed. Waiting for pods to start...",
                                  "timed out waiting for the condition"}
                         \cup (IF helmOk THEN {} ELSE {"Error: UPGRADE FAILED"})
              /\ trace' = trace \o <<"enter:UPGRADE", "helm repo update", "helm get values",
                                     "helm upgrade", "sleep 120", "kubectl get pods",
                                     "kubectl wait pod --all --timeout=600s">>
              /\ pc' = "done" /\ exitCode' = 1
         ELSE /\ out' = out \cup {"Upgrade command executed. Waiting for pods to start...",
                                  "Final pod status:"}
                         \cup (IF helmOk THEN {} ELSE {"Error: UPGRADE FAILED"})
                         \cup (IF podsReady THEN {} ELSE {"timed out waiting for the condition"})
              /\ trace' = trace \o <<"enter:UPGRADE", "helm repo update", "helm get values",
                                     "helm upgrade", "sleep 120", "kubectl get pods",
                                     "kubectl wait pod --all --timeout=600s",
                                     "kubectl get pods", "exit:UPGRADE">>
              /\ pc' = AfterStage("upgrade") /\ exitCode' = exitCode
  /\ UNCHANGED <<script, env, tools, envFile, upgVars, jobVars, lbVars, iamVars>>

\* The maximum elapsed time, in seconds, that each blocking command of the
\* upgrade script is given on its command line.
NoTimeout == -1

Timeout(cmd) ==
  CASE cmd = "kubectl wait job/milvus-backup --timeout=300s" -> 300
    [] cmd = "kubectl wait pod --all --timeout=600s" -> 600
    [] cmd = "kubectl logs -f job/milvus-restore" -> NoTimeout

\* A test that takes only the file this run wrote for backup information.
NoBackupInfoFromThisRun(file) == file # "backup-new"

\* Line 343: [ ! -f milvus-backup-info.env ], whoever wrote the file.
NoBackupInfo(file) == file = "none"

\* Line 352: the path sourced from milvus-backup-info.env.
RestoreSource(MILVUS_BACKUP_PATH) == "Restore source: " \o MILVUS_BACKUP_PATH

\* restore_data (lines 342-576), the shell side of it.  kubectl logs -f
\* returns when the restore container ends (or cannot be followed); while the
\* container runs, it keeps following.
RestoreData ==
  /\ script = "upgrade" /\ pc = "restore"
  /\ IF NoBackupInfo(infoFile)
       THEN /\ out' = out \cup {"No backup information found. Skipping restoration."}
            /\ trace' = trace \o <<"enter:RESTORE", "exit:RESTORE">>
            /\ pc' = AfterStage("restore")
       ELSE \E restored \in BOOLEAN, containerEnds \in BOOLEAN :
              IF ~containerEnds /\ Timeout("kubectl logs -f job/milvus-restore") = NoTimeout
                THEN /\ out' = out \cup {RestoreSource(infoFile), "Restore job logs:"}
                     /\ trace' = trace \o <<"enter:RESTORE",
                                            "kubectl apply -f milvus-restore-job.yaml",
                                            "sleep 10", "kubectl logs -f job/milvus-restore">>
                     /\ pc' = "blocked"
                ELSE /\ out' = out \cup
                          {RestoreSource(infoFile), "Restore job logs:",
                           IF restored THEN "Restoration completed successfully"
                                       ELSE "Restoration may not have completed successfully."}
                     /\ trace' = trace \o <<"enter:RESTORE",
                                            "kubectl apply -f milvus-restore-job.yaml",
                                            "sleep 10", "kubectl logs -f job/milvus-restore",
                                            "kubectl get job milvus-restore", "exit:RESTORE">>
                     /\ pc' = AfterStage("restore")
  /\ UNCHANGED <<script, exitCode, env, tools, envFile, upgVars, jobVars, lbVars, iamVars>>

\* verify_deployment (lines 579-603) and the final banner (lines 633-644).
VerifyDeployment ==
  /\ script = "upgrade" /\ pc = "verify"
  /\ \E lb \in BOOLEAN :
       out' = out \cup {IF lb THEN "Milvus is accessible at" ELSE "LoadBalancer address not found"}
                  \cup {"Milvus has been upgraded to cluster mode with Pulsar!"}
  /\ trace' = trace \o <<"enter:VERIFY", "kubectl get pods", "kubectl get svc",
                         "kubectl get pvc", "kubectl get svc milvus", "exit:VERIFY">>
  /\ pc' = AfterStage("verify") /\ exitCode' = 0
  /\ UNCHANGED <<script, env, tools, envFile, upgVars, jobVars, lbVars, iamVars>>

\* Main script flow (lines 605-631).
UpgradeNext ==
  \/ UpgradeEnvChecks
  \/ CheckClusterResources
  \/ Confirm
  \/ CreateBackup
  \/ UpgradeToCluster
  \/ RestoreData
  \/ VerifyDeployment

----------------------------------------------------------------------------
(* The backup job and the restore job: the Python programs embedded in       *)
(* create_backup (lines 126-231) and restore_data (lines 371-544).           *)
(* pymilvus and boto3 are fakes: a database that stores the field lists it   *)
(* is given and an object store.  description and auto_id are copied         *)
(* verbatim by both jobs (lines 178-181, 473-475) and are left out.          *)

MaxTotalFields == 3   \* the most fields the database holds, over all collections

CollNames == <<"docs", "imgs">>

CollSet == {CollNames[i] : i \in 1..Len(CollNames)}

FieldNames == <<"id", "vec", "txt", "tag", "num">>

\* pymilvus DataType members used in the database, and the vector dimensions.
DataTypes == {"INT64", "FLOAT", "FLOAT_VECTOR", "BINARY_VECTOR", "VARCHAR", "BOOL"}

VectorTypes == {"FLOAT_VECTOR", "BINARY_VECTOR"}

Dims == {64, 128}

NoParams == {}

DimParams(n) == {<<"dim", n>>}

HasDim(params) == \E kv \in params : kv[1] = "dim"

DimOf(params) == (CHOOSE kv \in params : kv[1] = "dim")[2]

DataTypePrefix == <<"D", "a", "t", "a", "T", "y", "p", "e", ".">>

MemberName(d) ==
  CASE d = "INT64" -> <<"I", "N", "T", "6", "4">>
    [] d = "FLOAT" -> <<"F", "L", "O", "A", "T">>
    [] d = "FLOAT_VECTOR" -> <<"F", "L", "O", "A", "T", "_", "V", "E", "C", "T", "O", "R">>
    [] d = "BINARY_VECTOR" ->
         <<"B", "I", "N", "A", "R", "Y", "_", "V", "E", "C", "T", "O", "R">>
    [] d = "VARCHAR" -> <<"V", "A", "R", "C", "H", "A", "R">>
    [] d = "BOOL" -> <<"B", "O", "O", "L">>

\* str(field.dtype) (line 179): the enum member printed as "DataType.<NAME>".
StrOfDtype(d) == DataTypePrefix \o MemberName(d)

\* Python's `a in b` on strings (line 462).
IsSubstring(a, b) ==
  \E i \in 0..(Len(b) - Len(a)) : \A j \in 1..Len(a) : b[i + j] = a[j]

\* dtype_map (lines 452-459), in insertion order.
DtypeMap ==
  << [key |-> DataTypePrefix \o <<"I", "N", "T", "6", "4">>, val |-> "INT64"],
     [key |-> DataTypePrefix \o <<"F", "L", "O", "A", "T">>, val |-> "FLOAT"],
     [key |-> DataTypePrefix \o <<"F", "L", "O", "A", "T", "_", "V", "E", "C", "T", "O", "R">>,
      val |-> "FLOAT_VECTOR"],
     [key |-> DataTypePrefix \o <<"B", "I", "N", "A", "R", "Y", "_", "V", "E", "C", "T", "O", "R">>,
      val |-> "BINARY_VECTOR"],
     [key |-> DataTypePrefix \o <<"V", "A", "R", "C", "H", "A", "R">>, val |-> "VARCHAR"] >>

\* The for/else of lines 461-467: the first entry whose key occurs in the type
\* string decides; "UNKNOWN" stands for the else branch.
LookupDtype(t) ==
  LET hits == {i \in 1..Len(DtypeMap) : IsSubstring(DtypeMap[i].key, t)}
  IN IF hits = {} THEN "UNKNOWN"
     ELSE DtypeMap[CHOOSE i \in hits : \A k \in hits : i <= k].val

\* field_dict of the backup job (lines 176-185).
FieldDict(f) ==
  [name |-> f.name, type |-> StrOfDtype(f.dtype), is_primary |-> f.is_primary,
   params |-> f.params]

SchemaDict(fields) == [i \in 1..Len(fields) |-> FieldDict(fields[i])]

\* field_kwargs and FieldSchema(**field_kwargs) (lines 470-483).
FieldSchema(f, t) ==
  [name |-> f.name, dtype |-> t, is_primary |-> f.is_primary,
   params |-> IF t \in VectorTypes
                THEN DimParams(IF HasDim(f.params) THEN DimOf(f.params) ELSE 128)
                ELSE NoParams]

RECURSIVE RebuildFieldsBreak(_)
RebuildFieldsBreak(fs) ==
  IF fs = << >> THEN << >>
  ELSE LET t == LookupDtype(Head(fs).type)
       IN IF t = "UNKNOWN" THEN << >>
          ELSE <<FieldSchema(Head(fs), t)>> \o RebuildFieldsBreak(Tail(fs))

\* The field loop of lines 449-483: unknown types are skipped (continue).
RECURSIVE RebuildFields(_)
RebuildFields(fs) ==
  IF fs = << >> THEN << >>
  ELSE LET t == LookupDtype(Head(fs).type)
       IN IF t = "UNKNOWN" THEN RebuildFields(Tail(fs))
          ELSE <<FieldSchema(Head(fs), t)>> \o RebuildFields(Tail(fs))

UnknownTypes(fs) == \E i \in 1..Len(fs) : LookupDtype(fs[i].type) = "UNKNOWN"

\* indexed: the names of the fields for which has_index is true (line 203).
Absent == [exists |-> FALSE, fields |-> << >>, indexed |-> {}]

Present(fields) == [exists |-> TRUE, fields |-> fields, indexed |-> {}]

FieldNamesOf(fields) == [i \in 1..Len(fields) |-> fields[i].name]

\* indexes (lines 201-209): one entry per indexed field, in field order.
IndexInfo(coll) == SelectSeq(FieldNamesOf(coll.fields), LAMBDA n : n \in coll.indexed)

\* utility.list_collections() (line 150), in name order.
ListCollections(d) == SelectSeq(CollNames, LAMBDA c : d[c].exists)

\* utility.drop_collection (line 494) and Collection(name, schema) (lines
\* 498-501); creating over an existing collection leaves that collection.
DropCollection(d, c) == [d EXCEPT ![c] = Absent]

CreateCollection(d, c, fields) ==
  IF d[c].exists THEN d ELSE [d EXCEPT ![c] = Present(fields)]

\* Lines 491-501: drop an existing collection of that name, then create.
RecreateWithoutDrop(d, c, fields) == CreateCollection(d, c, fields)

Recreate(d, c, fields) ==
  CreateCollection(IF d[c].exists THEN DropCollection(d, c) ELSE d, c, fields)

NoObject == << >>

\* Collections with at least one key under the backup prefix (lines 413-420).
BackupFiles == {"schema.json", "indexes.json"}

BackedUp(store) ==
  SelectSeq(CollNames, LAMBDA c : \E f \in BackupFiles : store[<<c, f>>] # NoObject)

NotReturned == -1

VpcIdle == vpcSubnets = << >> /\ subnetTags = << >> /\ SUBNET_IDS = << >>

LbIdle ==
  /\ elapsed = 0 /\ ret = NotReturned /\ externalIp = ""
  /\ lambdaHost = "unset" /\ MILVUS_ENDPOINT = ""
  /\ VpcIdle

NoRun == [iam |-> {}, exitCode |-> Running]

\* The aws-auth ConfigMap: whether it exists, and the ARNs that data.mapRoles
\* and data.mapUsers list.
NoConfigMap == [exists |-> FALSE, mapRoles |-> {}, mapUsers |-> {}]

ConfigMap(roles, users) == [exists |-> TRUE, mapRoles |-> roles, mapUsers |-> users]

NodeRole == <<"role", "node-instance-role", 0>>

AdminUser == "user/admin"

\* The ConfigMap as EKS leaves it on a cluster with a managed node group.
\* The eks.amazonaws.com/role-arn annotation: none applied by this run, or
\* the role the ARN names.
NoArn == <<"none", "", 0>>

NoServiceAccount == [roleArn |-> NoArn]

ClusterIdle == awsAuth = ConfigMap({NodeRole}, {}) /\ serviceAccount = NoServiceAccount /\ runs = << >>

IamIdle ==
  /\ iam = {} /\ attached = {} /\ clock = 0 /\ runNo = 0 /\ firstRun = NoRun
  /\ ClusterIdle

Jobs == {"backup-job", "restore-job"}

Healthy == reachableAt = [j \in Jobs |-> 1] /\ raises = {}

JobsIdle ==
  /\ db = [c \in CollSet |-> Absent]
  /\ dbAtBackup = db /\ dbAtRestore = db
  /\ s3 = [k \in CollSet \X BackupFiles |-> NoObject]
  /\ todo = << >>
  /\ attempt = 0 /\ slept = 0
  /\ Healthy

max_retries == 10

retry_interval == 5

\* Line 378: the restore job sleeps before its first connection attempt.
StartupSleep == 120

\* A loop that would wait after its last attempt as well.
ConnectAttemptSleepsAlways(delay) ==
  LET waited == IF attempt = 0 THEN delay ELSE 0
  IN IF reachableAt[script] = attempt + 1
       THEN /\ pc' = "connected" /\ exitCode' = exitCode
            /\ attempt' = attempt /\ slept' = slept + waited
            /\ out' = out \cup {"Connected to Milvus"}
       ELSE IF attempt < max_retries - 1
         THEN /\ pc' = pc /\ exitCode' = exitCode
              /\ attempt' = attempt + 1 /\ slept' = slept + waited + retry_interval
              /\ out' = out \cup {"Connection attempt failed", "Retrying in 5 seconds..."}
         ELSE /\ pc' = "done" /\ exitCode' = 1
              /\ attempt' = attempt /\ slept' = slept + waited + retry_interval
              /\ out' = out \cup {"Connection attempt failed",
                                  "Failed to connect to Milvus after multiple attempts"}

\* Lines 132-147 and 380-395: one iteration of `for i in range(max_retries)`;
\* delay is what the program slept before the loop.
ConnectAttempt(delay) ==
  LET waited == IF attempt = 0 THEN delay ELSE 0
  IN IF reachableAt[script] = attempt + 1
       THEN /\ pc' = "connected" /\ exitCode' = exitCode
            /\ attempt' = attempt /\ slept' = slept + waited
            /\ out' = out \cup {"Connected to Milvus"}
       ELSE IF attempt < max_retries - 1
         THEN /\ pc' = pc /\ exitCode' = exitCode
              /\ attempt' = attempt + 1 /\ slept' = slept + waited + retry_interval
              /\ out' = out \cup {"Connection attempt failed", "Retrying in 5 seconds..."}
         ELSE /\ pc' = "done" /\ exitCode' = 1
              /\ attempt' = attempt /\ slept' = slept + waited
              /\ out' = out \cup {"Connection attempt failed",
                                  "Failed to connect to Milvus after multiple attempts"}

\* Backup job, lines 132-147.
BackupConnect ==
  /\ script = "backup-job" /\ pc = "start"
  /\ ConnectAttempt(0)
  /\ UNCHANGED <<script, trace, env, tools, envFile, upgVars, db, dbAtBackup, dbAtRestore,
                 s3, todo, envVars, lbVars, iamVars>>

\* Backup job, lines 149-157: list the collections.
BackupStart ==
  /\ script = "backup-job" /\ pc = "connected"
  /\ pc' = "backup_loop"
  /\ todo' = ListCollections(db)
  /\ out' = out \cup {"Collections to backup:"}
  /\ dbAtBackup' = db
  /\ UNCHANGED <<script, exitCode, trace, env, tools, envFile, upgVars, db, dbAtRestore, s3,
                 attempt, slept, envVars, lbVars, iamVars>>

\* Backup job, lines 160-227: one iteration of the export loop.  An exception
\* anywhere in the iteration is caught at line 226: the message is printed and
\* the loop goes on with the next collection.
BackupCollection ==
  /\ script = "backup-job" /\ pc = "backup_loop" /\ todo # << >>
  /\ LET c == Head(todo)
         indexes == IndexInfo(db[c])
         schemaDone == <<c, "schema">> \notin raises
         indexDone == schemaDone /\ <<c, "index">> \notin raises
     IN /\ s3' = [k \in DOMAIN s3 |->
                    IF k = <<c, "schema.json">> /\ schemaDone
                      THEN SchemaDict(db[c].fields)
                    ELSE IF k = <<c, "indexes.json">> /\ indexDone /\ indexes # << >>
                      THEN indexes
                    ELSE s3[k]]
        /\ out' = out \cup {"Backing up collection:"}
                      \cup (IF schemaDone THEN {"Uploaded schema"} ELSE {})
                      \cup (IF indexDone /\ indexes # << >>
                              THEN {"Uploaded index information"} ELSE {})
                      \cup (IF indexDone THEN {} ELSE {"Error backing up"})
  /\ todo' = Tail(todo)
  /\ UNCHANGED <<script, pc, exitCode, trace, env, tools, envFile, upgVars, db,
                 dbAtBackup, dbAtRestore, attempt, slept, envVars, lbVars, iamVars>>

\* Backup job, line 229: the loop is over, the job ends with status 0.
BackupEnd ==
  /\ script = "backup-job" /\ pc = "backup_loop" /\ todo = << >>
  /\ pc' = "upgraded" /\ out' = out \cup {"Backup completed at"}
  /\ UNCHANGED <<script, exitCode, trace, env, tools, envFile, upgVars, jobVars, lbVars, iamVars>>

\* A differently shaped collection that may exist when the restore job runs.
OtherFields ==
  <<[name |-> "old", dtype |-> "VARCHAR", is_primary |-> TRUE, params |-> NoParams],
    [name |-> "vec", dtype |-> "FLOAT_VECTOR", is_primary |-> FALSE, params |-> DimParams(8)]>>

\* Between the jobs helm upgrade replaces the deployment (lines 289-318): each
\* collection may survive, be gone, or exist with another shape.  The restore
\* job is a new process.
ClusterReplaced ==
  /\ script = "backup-job" /\ pc = "upgraded"
  /\ \E keep \in SUBSET CollSet, other \in SUBSET CollSet :
       /\ keep \cap other = {}
       /\ db' = [c \in CollSet |->
                   IF c \in keep THEN db[c]
                   ELSE IF c \in other THEN Present(OtherFields) ELSE Absent]
  /\ script' = "restore-job" /\ pc' = "start"
  /\ attempt' = 0 /\ slept' = 0
  /\ UNCHANGED <<exitCode, trace, out, env, tools, envFile, upgVars, dbAtBackup,
                 dbAtRestore, s3, todo, envVars, lbVars, iamVars>>

\* Restore job, lines 376-395.
RestoreConnect ==
  /\ script = "restore-job" /\ pc = "start"
  /\ ConnectAttempt(StartupSleep)
  /\ UNCHANGED <<script, trace, env, tools, envFile, upgVars, db, dbAtBackup, dbAtRestore,
                 s3, todo, envVars, lbVars, iamVars>>

\* Restore job, lines 397-420: list the backup, group keys by collection.
RestoreStart ==
  /\ script = "restore-job" /\ pc = "connected"
  /\ IF BackedUp(s3) = << >>
       THEN /\ pc' = "done" /\ exitCode' = 0 /\ todo' = todo
            /\ out' = out \cup {"No backup content found"}
       ELSE /\ pc' = "restore_loop" /\ exitCode' = exitCode
            /\ todo' = BackedUp(s3)
            /\ out' = out
  /\ dbAtRestore' = db
  /\ UNCHANGED <<script, trace, env, tools, envFile, upgVars, db, dbAtBackup, s3,
                 attempt, slept, envVars, lbVars, iamVars>>

\* collection.create_index for the entries of indexes.json in order (lines
\* 525-534); the database refuses a field the collection does not have.
CreatedIndexes(c, indexes, fields) ==
  LET bad == {i \in 1..Len(indexes) :
                \/ <<c, "create_index">> \in raises
                \/ \A j \in 1..Len(fields) : fields[j].name # indexes[i]}
      n == IF bad = {} THEN Len(indexes) ELSE (CHOOSE i \in bad : \A k \in bad : i <= k) - 1
  IN [raised |-> bad # {}, names |-> {indexes[i] : i \in 1..n}]

\* An except clause inside the loop: the loop goes on with the next collection.
AfterRestoreErrorContinues(remaining) ==
  [pc |-> "restore_loop", exitCode |-> Running, todo |-> Tail(remaining)]

\* Lines 400 and 540-543: the try statement encloses the whole loop, so the
\* except clause is reached by leaving the loop; the program then ends
\* normally with the collections that remained left unprocessed.
AfterRestoreError(remaining) ==
  [pc |-> "done", exitCode |-> 0, todo |-> remaining]

\* A loop that drops the collection of a manifest entry without schema.json.
WithoutSchemaDropped(d, c) == DropCollection(d, c)

\* Lines 433-435: `continue` before any call on the database.
WithoutSchema(d, c) == d

\* The calls of a restore iteration that may raise, in the order they are
\* made: s3.download_file of the schema (line 438), Collection(name, schema)
\* (line 498), collection.create_index (line 530).
RestoreCalls == {"download_file", "Collection", "create_index"}

\* Restore job, lines 423-536: one iteration of the restore loop.  An
\* exception is caught at line 540, outside the loop: the job ends there.
RestoreCollection ==
  /\ script = "restore-job" /\ pc = "restore_loop" /\ todo # << >>
  /\ LET c == Head(todo)
         schema_data == s3[<<c, "schema.json">>]
         fields == RebuildFields(schema_data)
         made == CreatedIndexes(c, s3[<<c, "indexes.json">>], fields)
         failedAt == IF <<c, "download_file">> \in raises THEN "download_file"
                     ELSE IF <<c, "Collection">> \in raises THEN "Collection"
                     ELSE IF made.raised THEN "create_index" ELSE "none"
         after == AfterRestoreError(todo)
     IN IF schema_data = NoObject
          THEN /\ db' = WithoutSchema(db, c)
               /\ pc' = pc /\ exitCode' = exitCode /\ todo' = Tail(todo)
               /\ out' = out \cup {"Schema file not found"}
          ELSE /\ db' = CASE failedAt = "download_file" -> db
                          [] failedAt = "Collection" ->
                               IF db[c].exists THEN DropCollection(db, c) ELSE db
                          [] OTHER -> [Recreate(db, c, fields) EXCEPT ![c].indexed = made.names]
               /\ out' = out \cup (IF failedAt # "none" THEN {"Error during restoration"}
                                                         ELSE {"Collection restored successfully"})
                             \cup (IF failedAt # "download_file" /\ UnknownTypes(schema_data)
                                     THEN {"Unknown data type"} ELSE {})
                             \cup (IF failedAt # "download_file" /\ db[c].exists
                                     THEN {"already exists, dropping it"} ELSE {})
               /\ IF failedAt # "none"
                    THEN pc' = after.pc /\ exitCode' = after.exitCode /\ todo' = after.todo
                    ELSE pc' = pc /\ exitCode' = exitCode /\ todo' = Tail(todo)
  /\ UNCHANGED <<script, trace, env, tools, envFile, upgVars,
                 dbAtBackup, dbAtRestore, s3, attempt, slept, envVars, lbVars, iamVars>>

\* Restore job, line 538: the loop is over, the job ends with status 0.
RestoreEnd ==
  /\ script = "restore-job" /\ pc = "restore_loop" /\ todo = << >>
  /\ pc' = "done" /\ exitCode' = 0
  /\ out' = out \cup {"Restore completed"}
  /\ UNCHANGED <<script, trace, env, tools, envFile, upgVars, jobVars, lbVars, iamVars>>

JobsNext ==
  \/ BackupConnect
  \/ BackupStart
  \/ BackupCollection
  \/ BackupEnd
  \/ ClusterReplaced
  \/ RestoreConnect
  \/ RestoreStart
  \/ RestoreCollection
  \/ RestoreEnd

\* Field i of a collection: named by position, the first one the primary key.
TypeDims ==
  {<<d, 0>> : d \in DataTypes \ VectorTypes} \cup (VectorTypes \X Dims)

MkField(i, td) ==
  [name |-> FieldNames[i], dtype |-> td[1], is_primary |-> (i = 1),
   params |-> IF td[1] \in VectorTypes THEN DimParams(td[2]) ELSE NoParams]

\* The schemas of n fields; the primary key of a Milvus collection is an INT64
\* or a VARCHAR field.
Schemas(n) ==
  IF n = 0 THEN {Absent}
  ELSE {Present([i \in 1..n |-> MkField(i, tds[i])]) :
          tds \in {t \in [1..n -> TypeDims] : t[1][1] \in {"INT64", "VARCHAR"}}}

Databases ==
  UNION { { [c \in CollSet |-> IF c = CollNames[1] THEN a ELSE b] :
              a \in Schemas(n1), b \in Schemas(n2) } :
          <<n1, n2>> \in {nn \in (0..MaxTotalFields) \X (0..MaxTotalFields) :
                             nn[1] + nn[2] <= MaxTotalFields} }

InitJobs ==
  /\ script = "backup-job"
  /\ pc = "start"
  /\ exitCode = Running
  /\ trace = << >>
  /\ out = {}
  /\ env = {} /\ tools = {} /\ envFile = FALSE
  /\ proceed = << >> /\ bucket = TRUE /\ infoFile = "none" /\ jobStatus = FALSE /\ continue_anyway = << >>
  /\ db \in Databases
  /\ dbAtBackup = db /\ dbAtRestore = db
  /\ s3 = [k \in CollSet \X BackupFiles |-> NoObject]
  /\ todo = << >>
  /\ attempt = 0 /\ slept = 0
  /\ Healthy
  /\ LbIdle /\ IamIdle

\* The jobs against a Milvus that starts answering at any attempt, or never.
InitRetry ==
  /\ script = "backup-job"
  /\ pc = "start"
  /\ exitCode = Running
  /\ trace = << >>
  /\ out = {}
  /\ env = {} /\ tools = {} /\ envFile = FALSE
  /\ proceed = << >> /\ bucket = TRUE /\ infoFile = "none" /\ jobStatus = FALSE
  /\ continue_anyway = << >>
  /\ db \in {[c \in CollSet |-> Absent],
             [c \in CollSet |-> IF c = "docs" THEN Present(<<MkField(1, <<"INT64", 0>>)>>)
                                              ELSE Absent]}
  /\ dbAtBackup = db /\ dbAtRestore = db
  /\ s3 = [k \in CollSet \X BackupFiles |-> NoObject]
  /\ todo = << >>
  /\ attempt = 0 /\ slept = 0
  /\ reachableAt \in [Jobs -> 0..max_retries]
  /\ raises = {}
  /\ LbIdle /\ IamIdle

SpecRetry == InitRetry /\ [][JobsNext]_vars

\* A collection of n fields, an INT64 key and float vectors, with any of its
\* fields indexed.
IndexedSchemas(n) ==
  IF n = 0 THEN {Absent}
  ELSE LET fields == [i \in 1..n |->
                        MkField(i, IF i = 1 THEN <<"INT64", 0>> ELSE <<"FLOAT_VECTOR", 128>>)]
       IN {[Present(fields) EXCEPT !.indexed = ix] :
             ix \in SUBSET {fields[i].name : i \in 1..n}}

IndexedDatabases ==
  UNION { { [c \in CollSet |-> IF c = CollNames[1] THEN a ELSE b] :
              a \in IndexedSchemas(n1), b \in IndexedSchemas(n2) } :
          <<n1, n2>> \in {nn \in (0..MaxTotalFields) \X (0..MaxTotalFields) :
                             nn[1] + nn[2] <= MaxTotalFields} }

\* The library calls of an iteration that may raise: the schema export (lines
\* 164-197), the index export (lines 200-223), create_index (line 530).
Calls == {"schema", "index", "create_index"}

\* The jobs on a database with indexes, with calls that raise.
InitBackup ==
  /\ script = "backup-job"
  /\ pc = "start"
  /\ exitCode = Running
  /\ trace = << >>
  /\ out = {}
  /\ env = {} /\ tools = {} /\ envFile = FALSE
  /\ proceed = << >> /\ bucket = TRUE /\ infoFile = "none" /\ jobStatus = FALSE
  /\ continue_anyway = << >>
  /\ db \in IndexedDatabases
  /\ dbAtBackup = db /\ dbAtRestore = db
  /\ s3 = [k \in CollSet \X BackupFiles |-> NoObject]
  /\ todo = << >>
  /\ attempt = 0 /\ slept = 0
  /\ reachableAt = [j \in Jobs |-> 1]
  /\ raises \in SUBSET (CollSet \X Calls)
  /\ LbIdle /\ IamIdle

SpecBackup == InitBackup /\ [][JobsNext]_vars

\* The collection shape held by the backups the restore job is started on.
KeyAndVector == <<MkField(1, <<"INT64", 0>>), MkField(2, <<"FLOAT_VECTOR", 128>>)>>

\* What the prefix named by milvus-backup-info.env may hold for each
\* collection: schema.json or not, indexes.json or not.
Backups ==
  {[k \in CollSet \X BackupFiles |->
      IF k[2] = "schema.json"
        THEN (IF k[1] \in withSchema THEN SchemaDict(KeyAndVector) ELSE NoObject)
        ELSE (IF k[1] \in withIndexes THEN <<"vec">> ELSE NoObject)] :
     withSchema \in SUBSET CollSet, withIndexes \in SUBSET CollSet}

RestoreNext ==
  \/ RestoreConnect
  \/ RestoreStart
  \/ RestoreCollection
  \/ RestoreEnd

\* The restore job, started on any such backup and on a cluster where each
\* collection is absent, has the backed-up shape or has another shape; at
\* most one call raises.
InitRestore ==
  /\ script = "restore-job"
  /\ pc = "start"
  /\ exitCode = Running
  /\ trace = << >>
  /\ out = {}
  /\ env = {} /\ tools = {} /\ envFile = FALSE
  /\ proceed = << >> /\ bucket = TRUE /\ infoFile = "backup-old" /\ jobStatus = FALSE
  /\ continue_anyway = << >>
  /\ db \in [CollSet -> {Absent, Present(KeyAndVector), Present(OtherFields)}]
  /\ dbAtBackup = db /\ dbAtRestore = db
  /\ s3 \in Backups
  /\ todo = << >>
  /\ attempt = 0 /\ slept = 0
  /\ reachableAt = [j \in Jobs |-> 1]
  /\ raises \in {{}} \cup {{r} : r \in CollSet \X RestoreCalls}
  /\ LbIdle /\ IamIdle

SpecRestore == InitRestore /\ [][RestoreNext]_vars

----------------------------------------------------------------------------
(* scripts/wait-for-milvus-endpoint.sh, lines 1-96 *)

MAX_WAIT == 600

PollInterval == 15

\* What kubectl prints for .status.loadBalancer.ingress[0].hostname.
Hostnames == {"", "<pending>", "a1b2.elb.amazonaws.com", "c3d4.elb.amazonaws.com"}

\* Line 23: while [ $ELAPSED -lt $MAX_WAIT ].
LoopContinuesInclusive(e) == e <= MAX_WAIT

LoopContinues(e) == e < MAX_WAIT

\* Line 26: [ -n "$EXTERNAL_IP" ] && [ "$EXTERNAL_IP" != "<pending>" ].
LbReady(h) == h # "" /\ h # "<pending>"

\* wait_for_lb, lines 23-34: one iteration of the polling loop.
WaitForLbPoll ==
  /\ script = "wait-endpoint" /\ pc = "wait_for_lb" /\ LoopContinues(elapsed)
  /\ \E h \in Hostnames :
       /\ externalIp' = h
       /\ IF LbReady(h)
            THEN /\ ret' = 0 /\ pc' = "main" /\ elapsed' = elapsed
                 /\ out' = out \cup {"LoadBalancer is ready with endpoint"}
                 /\ trace' = Append(trace, "kubectl get svc milvus")
            ELSE /\ ret' = ret /\ pc' = pc /\ elapsed' = elapsed + PollInterval
                 /\ out' = out \cup {"LoadBalancer still provisioning..."}
                 /\ trace' = trace \o <<"kubectl get svc milvus", "sleep 15">>
  /\ UNCHANGED <<script, exitCode, env, tools, envFile, lambdaHost, MILVUS_ENDPOINT,
                 vpcVars, upgVars, jobVars, iamVars>>

\* wait_for_lb, lines 36-37: the loop condition failed.
WaitForLbTimeout ==
  /\ script = "wait-endpoint" /\ pc = "wait_for_lb" /\ ~LoopContinues(elapsed)
  /\ ret' = 1 /\ pc' = "main"
  /\ out' = out \cup {"Timed out waiting for LoadBalancer"}
  /\ UNCHANGED <<script, exitCode, trace, env, tools, envFile, elapsed, externalIp,
                 lambdaHost, MILVUS_ENDPOINT, vpcVars, upgVars, jobVars, iamVars>>

\* A test that would let any re-read value through.
EndpointUsableAlways(e) == TRUE

\* Line 80: [ -n "$MILVUS_ENDPOINT" ].
EndpointUsable(e) == e # ""

\* A script that ended with the status update_lambda returned.
StatusAfterUpdatePropagated(rc) == rc

\* Lines 81 and 91-96: the status of update_lambda is not tested and the
\* script has no set -e, so the last echo decides the exit status.
StatusAfterUpdate(rc) == IF ErrExit(script) THEN rc ELSE 0

\* Main execution and update_lambda, lines 41-96.
WaitEndpointMain ==
  /\ script = "wait-endpoint" /\ pc = "main"
  /\ pc' = "done"
  /\ IF ret # 0
       THEN /\ exitCode' = 1 /\ out' = out \cup {"Failed to get Milvus endpoint"}
            /\ UNCHANGED <<trace, lambdaHost, MILVUS_ENDPOINT>>
       ELSE \E endpoint \in Hostnames, found \in BOOLEAN, updated \in BOOLEAN :
              /\ MILVUS_ENDPOINT' = endpoint
              /\ IF ~EndpointUsable(endpoint)
                   THEN /\ exitCode' = 1
                        /\ out' = out \cup {"Could not retrieve Milvus endpoint"}
                        /\ trace' = Append(trace, "kubectl get svc milvus")
                        /\ lambdaHost' = lambdaHost
                   ELSE LET called == endpoint # "" /\ found
                            rc == IF called /\ updated THEN 0 ELSE 1
                        IN /\ exitCode' = StatusAfterUpdate(rc)
                           /\ trace' = trace \o <<"kubectl get svc milvus">>
                                \o (IF endpoint # ""
                                      THEN <<"aws cloudformation describe-stacks">> ELSE << >>)
                                \o (IF called
                                      THEN <<"aws lambda update-function-configuration">>
                                      ELSE << >>)
                           /\ lambdaHost' = IF called /\ updated THEN endpoint ELSE lambdaHost
                           /\ out' = out
                                \cup (IF StatusAfterUpdate(rc) = 0
                                        THEN {"Milvus deployment details:"} ELSE {})
                                \cup (IF endpoint = "" THEN {"No Milvus endpoint provided"}
                                      ELSE IF ~found
                                        THEN {"Could not find Lambda function from CloudFormation stack"}
                                      ELSE IF updated
                                        THEN {"Successfully updated Lambda environment variables"}
                                        ELSE {"Failed to update Lambda environment variables"})
  /\ UNCHANGED <<script, env, tools, envFile, elapsed, ret, externalIp, vpcVars, upgVars,
                 jobVars, iamVars>>

WaitEndpointNext == WaitForLbPoll \/ WaitForLbTimeout \/ WaitEndpointMain

InitWaitEndpoint ==
  /\ script = "wait-endpoint" /\ pc = "wait_for_lb"
  /\ exitCode = Running /\ trace = << >> /\ out = {}
  /\ env = {} /\ tools = {} /\ envFile \in BOOLEAN
  /\ proceed = << >> /\ bucket = FALSE /\ infoFile = "none" /\ jobStatus = FALSE /\ continue_anyway = << >>
  /\ JobsIdle /\ LbIdle /\ IamIdle

SpecWaitEndpoint == InitWaitEndpoint /\ [][WaitEndpointNext]_vars

----------------------------------------------------------------------------
(* Shell steps.  A step is the list of commands it runs (its plan) and the   *)
(* set of those that fail in this environment.  Under `set -e` a failing     *)
(* command that is not guarded by if, ||, && or ! ends the script with a     *)
(* non-zero status; the commands after it are not run.                       *)

\* Index of the first command of the plan that fails unguarded, 0 if none.
FirstAbort(plan, fails, abortable) ==
  LET bad == {i \in 1..Len(plan) : plan[i] \in fails \cap abortable}
  IN IF bad = {} THEN 0 ELSE CHOOSE i \in bad : \A j \in bad : i <= j

\* The commands that were run, and those among them that succeeded.
Executed(plan, k) == IF k = 0 THEN plan ELSE SubSeq(plan, 1, k)

Ran(plan, k, cmd) == Has(Executed(plan, k), cmd)

Succeeded(plan, k, fails, cmd) == Ran(plan, k, cmd) /\ cmd \notin fails

PlanSet(plan) == {plan[i] : i \in 1..Len(plan)}

\* The step's effect on the shell: the calls made, and where it goes next.
ShellStep(plan, k, next) ==
  /\ trace' = trace \o Executed(plan, k)
  /\ IF k = 0 THEN pc' = next /\ exitCode' = exitCode
              ELSE pc' = "done" /\ exitCode' = 1

CredNames == {"AWS_ACCESS_KEY_ID", "AWS_SECRET_ACCESS_KEY"}

----------------------------------------------------------------------------
(* prepare-eks-environment: scripts/apply-aws-auth.sh, lines 74-535 *)

\* Lines 95-117: what makes the preamble exit 1 (AWS_REGION has a default).
PrepareMissing(e, t) ==
  \/ "EKS_CLUSTER_NAME" \notin e
  \/ ~(CredNames \subseteq e)
  \/ ~({"aws", "kubectl", "helm", "jq"} \subseteq t)

\* Lines 89-117.
PrepareEnvChecks ==
  /\ script = "prepare" /\ pc = "start"
  /\ IF PrepareMissing(env, tools)
       THEN /\ pc' = "done" /\ exitCode' = 1 /\ env' = env
            /\ out' = out \cup {"not set or not installed"}
       ELSE /\ pc' = "configure_aws_cli" /\ exitCode' = exitCode
            /\ env' = env \cup {"AWS_REGION"}
            /\ out' = out \cup {"Using default" : x \in {"AWS_REGION"} \ env}
  /\ UNCHANGED <<script, trace, tools, envFile, upgVars, jobVars, lbVars, iamVars>>

\* configure_aws_cli, lines 120-135 (no set -e in this script).
ConfigureAwsCli ==
  /\ script = "prepare" /\ pc = "configure_aws_cli"
  /\ ShellStep(<<"aws configure set region", "aws sts get-caller-identity",
                 "aws eks describe-cluster">>, 0, "setup_eks_access")
  /\ UNCHANGED <<script, out, env, tools, envFile, upgVars, jobVars, lbVars, iamVars>>

PrepareNext == PrepareEnvChecks \/ ConfigureAwsCli

----------------------------------------------------------------------------
(* deploy-milvus-to-eks: scripts/create-lb-service-account.sh, lines 55-424, *)
(* which runs under set -e (line 56).  The source ends inside the fallback   *)
(* helm command of Step 6 (line 424).                                        *)

\* An IAM object: kind, name, and the timestamp suffix of its name (0: none).
LbPolicy == <<"policy", "AWSLoadBalancerControllerIAMPolicy", 0>>

LbRole == <<"role", "AmazonEKSLoadBalancerControllerRole", 0>>

\* Lines 67-80: lambda/.env is exported into the environment, or exit 1.
DeployLoadEnv ==
  /\ script = "deploy" /\ pc = "start"
  /\ IF envFile
       THEN \E set \in SUBSET CredNames, emptied \in SUBSET CredNames :
              /\ set \cap emptied = {}
              /\ env' = (env \ emptied) \cup set
              /\ pc' = "creds" /\ exitCode' = exitCode /\ out' = out
       ELSE /\ pc' = "done" /\ exitCode' = 1 /\ env' = env
            /\ out' = out \cup {"Error: lambda/.env file not found"}
  /\ UNCHANGED <<script, trace, tools, envFile, upgVars, jobVars, lbVars, iamVars>>

\* Lines 83-87.
DeployCredsMissingNever(e) == FALSE

DeployCredsMissing(e) == ~(CredNames \subseteq e)

DeployCheckCreds ==
  /\ script = "deploy" /\ pc = "creds"
  /\ IF DeployCredsMissing(env)
       THEN /\ pc' = "done" /\ exitCode' = 1
            /\ out' = out \cup {"Error: AWS_ACCESS_KEY_ID and AWS_SECRET_ACCESS_KEY are required"}
       ELSE /\ pc' = "config" /\ exitCode' = exitCode /\ out' = out
  /\ UNCHANGED <<script, trace, env, tools, envFile, upgVars, jobVars, lbVars, iamVars>>

\* Lines 90-109: MILVUS_BUCKET_NAME from the stack outputs, then the tool checks.
DeployConfig ==
  /\ script = "deploy" /\ pc = "config"
  /\ \E fails \in SUBSET {"aws cloudformation describe-stacks"} :
       LET plan == <<"aws cloudformation describe-stacks">>
           k == FirstAbort(plan, fails, PlanSet(plan))
       IN /\ "aws" \notin tools => fails # {}
          /\ IF k = 0 /\ ~({"kubectl", "helm"} \subseteq tools)
               THEN /\ trace' = trace \o plan /\ pc' = "done" /\ exitCode' = 1
                    /\ out' = out \cup {"is not installed. Please install it first."}
               ELSE /\ ShellStep(plan, k, "step1") /\ out' = out
  /\ UNCHANGED <<script, env, tools, envFile, upgVars, jobVars, lbVars, iamVars>>

\* Step 1, lines 111-122.
DeployStep1 ==
  /\ script = "deploy" /\ pc = "step1"
  /\ \E fails \in SUBSET {"aws eks update-kubeconfig", "kubectl get nodes"} :
       LET plan == <<"aws eks update-kubeconfig", "kubectl get nodes">>
           k == FirstAbort(plan, fails, {"aws eks update-kubeconfig"})
       IN /\ ShellStep(plan, k, "step2")
          /\ out' = out \cup (IF Ran(plan, k, "kubectl get nodes") /\ "kubectl get nodes" \in fails
                                THEN {"Warning: Unable to list nodes."} ELSE {})
  /\ UNCHANGED <<script, env, tools, envFile, upgVars, jobVars, lbVars, iamVars>>

\* Step 2, lines 124-137: `create-addon ... || echo Warning`, describe-addon in an if.
AddonAbortableUnguarded == {"aws eks create-addon"}

AddonAbortable == {}

DeployStep2 ==
  /\ script = "deploy" /\ pc = "step2"
  /\ \E fails \in SUBSET {"aws eks create-addon", "aws eks describe-addon"} :
       LET plan == <<"aws eks create-addon", "aws eks describe-addon">>
           k == FirstAbort(plan, fails, AddonAbortable)
       IN /\ ShellStep(plan, k, "step3")
          /\ out' = out
               \cup (IF "aws eks create-addon" \in fails
                       THEN {"An error occurred when calling the CreateAddon operation"}
                       ELSE {})
               \cup (IF "aws eks create-addon" \in fails /\ k = 0
                       THEN {"Warning: Could not install EKS Pod Identity Agent add-on."}
                       ELSE {})
               \cup (IF ~Ran(plan, k, "aws eks describe-addon") THEN {}
                     ELSE IF "aws eks describe-addon" \in fails
                       THEN {"Warning: Could not verify EKS Pod Identity Agent add-on installation."}
                       ELSE {"EKS Pod Identity Agent add-on installed successfully"})
  /\ UNCHANGED <<script, env, tools, envFile, upgVars, jobVars, lbVars, iamVars>>

\* Step 3, lines 139-142.
DeployStep3 ==
  /\ script = "deploy" /\ pc = "step3"
  /\ \E fails \in SUBSET {"kubectl apply -k aws-ebs-csi-driver"} :
       LET plan == <<"kubectl apply -k aws-ebs-csi-driver">>
       IN ShellStep(plan, FirstAbort(plan, fails, PlanSet(plan)), "step4")
  /\ UNCHANGED <<script, out, env, tools, envFile, upgVars, jobVars, lbVars, iamVars>>

\* Step 4, lines 144-162.
DeployStep4 ==
  /\ script = "deploy" /\ pc = "step4"
  /\ \E fails \in SUBSET {"kubectl get storageclass ebs-gp3-sc", "kubectl apply -f - (StorageClass)"} :
       LET plan == <<"kubectl get storageclass ebs-gp3-sc">>
                     \o (IF "kubectl get storageclass ebs-gp3-sc" \in fails
                           THEN <<"kubectl apply -f - (StorageClass)">> ELSE << >>)
           k == FirstAbort(plan, fails, {"kubectl apply -f - (StorageClass)"})
       IN /\ ShellStep(plan, k, "step5")
          /\ out' = out \cup (IF "kubectl get storageclass ebs-gp3-sc" \in fails THEN {}
                              ELSE {"StorageClass ebs-gp3-sc already exists, skipping creation."})
  /\ UNCHANGED <<script, env, tools, envFile, upgVars, jobVars, lbVars, iamVars>>

\* Step 5, lines 164-171: the eks chart repository.
DeployLbRepo ==
  /\ script = "deploy" /\ pc = "step5"
  /\ \E fails \in SUBSET {"helm repo list | grep eks", "helm repo add eks", "helm repo update"} :
       LET plan == <<"helm repo list | grep eks">>
                     \o (IF "helm repo list | grep eks" \in fails
                           THEN <<"helm repo add eks">> ELSE << >>)
                     \o <<"helm repo update">>
       IN ShellStep(plan, FirstAbort(plan, fails, {"helm repo add eks", "helm repo update"}),
                    "irsa")
  /\ UNCHANGED <<script, out, env, tools, envFile, upgVars, jobVars, lbVars, iamVars>>

\* Step 5, lines 173-279: OIDC issuer, policy, role, service account.
DeployIrsa ==
  /\ script = "deploy" /\ pc = "irsa"
  /\ \E oidcEmpty \in BOOLEAN,
        failing \in {"none", "curl iam_policy.json", "aws iam create-policy",
                     "aws iam create-role", "aws iam attach-role-policy",
                     "kubectl apply -f aws-lb-service-account.yaml"} :
       IF oidcEmpty
         THEN /\ trace' = Append(trace, "aws eks describe-cluster")
              /\ pc' = "done" /\ exitCode' = 1
              /\ out' = out \cup {"Error: Failed to get OIDC provider URL for the EKS cluster."}
              /\ UNCHANGED <<iam, attached, serviceAccount, runs>>
         ELSE LET plan ==
                    <<"aws eks describe-cluster", "aws iam get-policy">>
                    \o (IF LbPolicy \in iam THEN << >>
                        ELSE <<"curl iam_policy.json", "aws iam create-policy">>)
                    \o <<"aws iam get-role">>
                    \o (IF LbRole \in iam THEN <<"aws iam get-role --query Role.Arn">>
                        ELSE <<"aws iam create-role", "aws iam attach-role-policy">>)
                    \o <<"kubectl apply -f aws-lb-service-account.yaml">>
                  fails == {failing}
                  k == FirstAbort(plan, fails, fails)
              IN /\ ShellStep(plan, k, "lb_install")
                 /\ iam' = iam
                      \cup (IF Succeeded(plan, k, fails, "aws iam create-policy")
                              THEN {LbPolicy} ELSE {})
                      \cup (IF Succeeded(plan, k, fails, "aws iam create-role")
                              THEN {LbRole} ELSE {})
                 /\ attached' = attached
                      \cup (IF Succeeded(plan, k, fails, "aws iam attach-role-policy")
                              THEN {<<LbRole, LbPolicy>>} ELSE {})
                 /\ serviceAccount' =
                      IF Succeeded(plan, k, fails, "kubectl apply -f aws-lb-service-account.yaml")
                        THEN [roleArn |-> LbRole] ELSE serviceAccount
                 /\ out' = out
  /\ UNCHANGED <<script, env, tools, envFile, clock, runNo, firstRun, awsAuth,
                 runs, upgVars, jobVars, lbVars>>

\* Step 5, lines 281-297: the controller chart and the wait for its deployment.
\* Neither command stands in an if or before ||: under set -e (line 56) a
\* non-zero status of kubectl wait ends the script at line 292, before the
\* test of $? at line 293.
DeployLbInstall ==
  /\ script = "deploy" /\ pc = "lb_install"
  /\ \E fails \in SUBSET {"helm upgrade --install aws-load-balancer-controller",
                          "kubectl wait deployment/aws-load-balancer-controller --timeout=120s"} :
       LET plan == <<"helm upgrade --install aws-load-balancer-controller",
                     "kubectl wait deployment/aws-load-balancer-controller --timeout=120s">>
           wait == "kubectl wait deployment/aws-load-balancer-controller --timeout=120s"
           k == FirstAbort(plan, fails, Unguarded(PlanSet(plan)))
       IN /\ ShellStep(plan, k, "tag_subnets")
          /\ out' = out
               \cup (IF Ran(plan, k, wait) /\ wait \in fails
                       THEN {"error: timed out waiting for the condition"} ELSE {})
               \cup (IF k # 0 THEN {}
                     ELSE IF wait \in fails
                       THEN {"Warning: Timed out waiting for AWS Load Balancer webhook to be ready. Will continue anyway."}
                       ELSE {"AWS Load Balancer webhook service is available. Continuing..."})
  /\ UNCHANGED <<script, env, tools, envFile, upgVars, jobVars, lbVars, iamVars>>

\* Step 5, lines 299-338: subnet tagging; kinds of the subnets found in the VPC.
SubnetLists == {<< >>, <<"public">>, <<"private">>, <<"unassociated">>, <<"public", "private">>}

RECURSIVE TagPlan(_)
TagPlan(subnets) ==
  IF subnets = << >> THEN << >>
  ELSE <<"aws ec2 describe-route-tables (association)">>
       \o (CASE Head(subnets) = "public" ->
                  <<"aws ec2 describe-route-tables (routes)",
                    "aws ec2 create-tags kubernetes.io/role/elb",
                    "aws ec2 create-tags kubernetes.io/cluster">>
             [] Head(subnets) = "private" ->
                  <<"aws ec2 describe-route-tables (routes)",
                    "aws ec2 create-tags kubernetes.io/role/internal-elb",
                    "aws ec2 create-tags kubernetes.io/cluster">>
             [] OTHER -> << >>)
       \o TagPlan(Tail(subnets))

DeployTagSubnets ==
  /\ script = "deploy" /\ pc = "tag_subnets"
  /\ \E vpcFound \in BOOLEAN, subnets \in SubnetLists :
       LET plan == <<"aws eks describe-cluster">>
                     \o (IF vpcFound THEN <<"aws ec2 describe-subnets">> \o TagPlan(subnets)
                                     ELSE << >>)
       IN \E failing \in PlanSet(plan) \cup {"none"} :
            /\ ShellStep(plan, FirstAbort(plan, {failing}, PlanSet(plan)), "step6")
            /\ out' = out \cup (IF failing # "none" THEN {}
                                ELSE IF ~vpcFound THEN {"Error: Failed to get VPC ID for the EKS cluster."}
                                ELSE IF subnets = << >> THEN {"Error: No subnets found in VPC"}
                                ELSE {"Subnet tagging complete."})
  /\ UNCHANGED <<script, env, tools, envFile, upgVars, jobVars, lbVars, iamVars>>

\* Step 6, lines 340-424: namespace, webhook bypass, the Milvus chart.
DeployMilvus ==
  /\ script = "deploy" /\ pc = "step6"
  /\ \E webhook \in BOOLEAN,
        guarded \in SUBSET {"helm repo update", "helm upgrade --install milvus"},
        failing \in {"none", "kubectl apply -f - (Namespace)", "kubectl label namespace",
                     "kubectl annotate mutatingwebhookconfigurations",
                     "kubectl get mutatingwebhookconfigurations | grep",
                     "kubectl get pods | grep aws-load-balancer"} :
       LET fails == guarded \cup {failing}
           plan == <<"kubectl apply -f - (Namespace)", "helm repo update",
                     "kubectl label namespace", "kubectl get mutatingwebhookconfigurations">>
                   \o (IF webhook THEN <<"kubectl annotate mutatingwebhookconfigurations">>
                                  ELSE << >>)
                   \o <<"sleep 30", "helm upgrade --install milvus">>
                   \o (IF "helm upgrade --install milvus" \in fails
                         THEN <<"kubectl get mutatingwebhookconfigurations | grep",
                                "kubectl get pods | grep aws-load-balancer",
                                "helm upgrade --install milvus --no-hooks">>
                         ELSE << >>)
           k == FirstAbort(plan, fails,
                           {"kubectl apply -f - (Namespace)", "kubectl label namespace",
                            "kubectl annotate mutatingwebhookconfigurations",
                            "kubectl get mutatingwebhookconfigurations | grep",
                            "kubectl get pods | grep aws-load-balancer"})
       IN /\ ShellStep(plan, k, "end_of_source")
          /\ out' = out
               \cup (IF Ran(plan, k, "helm repo update") /\ "helm repo update" \in fails
                       THEN {"Warning: Could not update Helm repositories. Continuing anyway..."}
                       ELSE {})
               \cup (IF Ran(plan, k, "helm upgrade --install milvus --no-hooks")
                       THEN {"Attempting installation with minimal configuration..."} ELSE {})
  /\ UNCHANGED <<script, env, tools, envFile, upgVars, jobVars, lbVars, iamVars>>

DeployNext ==
  \/ DeployLoadEnv
  \/ DeployCheckCreds
  \/ DeployConfig
  \/ DeployStep1
  \/ DeployStep2
  \/ DeployStep3
  \/ DeployStep4
  \/ DeployLbRepo
  \/ DeployIrsa
  \/ DeployLbInstall
  \/ DeployTagSubnets
  \/ DeployMilvus

\* The three scripts that declare required credentials, from process start.
InitScripts ==
  /\ script \in {"upgrade", "prepare", "deploy"}
  /\ pc = "start"
  /\ exitCode = Running /\ trace = << >> /\ out = {}
  /\ env \in SUBSET (IF script = "deploy" THEN CredNames ELSE UpgradeEnvNames)
  /\ tools \in {AllTools, AllTools \ {"helm"}, AllTools \ {"jq"}, AllTools \ {"aws"}}
  /\ envFile \in (IF script = "deploy" THEN BOOLEAN ELSE {FALSE})
  /\ proceed = << >> /\ bucket = FALSE /\ infoFile = "none" /\ jobStatus = FALSE /\ continue_anyway = << >>
  /\ JobsIdle /\ LbIdle
  /\ iam \in (IF script = "deploy" THEN SUBSET {LbPolicy, LbRole} ELSE {{}})
  /\ attached = {} /\ clock = 0 /\ runNo = 0 /\ firstRun = NoRun
  /\ ClusterIdle

ScriptsNext == UpgradeNext \/ PrepareNext \/ DeployNext

SpecScripts == InitScripts /\ [][ScriptsNext]_vars

----------------------------------------------------------------------------
(* The access bootstrap scripts, each run twice against the same account:    *)
(*   "access_setup": Complete EKS Access Setup,                              *)
(*                   scripts/wait-for-milvus-endpoint.sh lines 98-349, set -e *)
(*   "fix_access":   fix-eks-access, unnamed/part_003, no set -e             *)
(* The IAM fake refuses to create an object whose name is taken and to look  *)
(* up or attach to one that does not exist.                                  *)

MaxStamp == 2

AccessScripts == {"access_setup", "fix_access"}

EksAdminPolicy == <<"policy", "EksAdminPolicy", 0>>

EksAdminRole == <<"role", "eks-admin-role", 0>>

\* part_003 line 37: ROLE_NAME="eks-admin-role-$(date +%s)"
StampedRole(t) == <<"role", "eks-admin-role", t>>

ManagedPolicies == {<<"policy", "AmazonEKSClusterPolicy", 0>>,
                    <<"policy", "AmazonEKSServicePolicy", 0>>}

\* The last step of a script that runs to its end (exit status 0).
ShellEnd(plan, k) ==
  /\ trace' = trace \o Executed(plan, k)
  /\ pc' = "done"
  /\ exitCode' = IF k = 0 THEN 0 ELSE 1

\* Lines 110-123.  The second run exports the same file into the same
\* environment, which leaves the environment as the first run made it.
AccessLoadEnv ==
  /\ script = "access_setup" /\ pc = "start"
  /\ IF envFile
       THEN /\ IF runNo = 1
                 THEN \E set \in SUBSET CredNames, emptied \in SUBSET CredNames :
                        set \cap emptied = {} /\ env' = (env \ emptied) \cup set
                 ELSE env' = env
            /\ pc' = "creds" /\ exitCode' = exitCode /\ out' = out
       ELSE /\ pc' = "done" /\ exitCode' = 1 /\ env' = env
            /\ out' = out \cup {"Error: lambda/.env file not found"}
  /\ UNCHANGED <<script, trace, tools, envFile, upgVars, jobVars, lbVars, iamVars>>

\* Lines 126-130.
AccessCheckCreds ==
  /\ script = "access_setup" /\ pc = "creds"
  /\ IF ~(CredNames \subseteq env)
       THEN /\ pc' = "done" /\ exitCode' = 1
            /\ out' = out \cup {"Error: AWS_ACCESS_KEY_ID and AWS_SECRET_ACCESS_KEY are required"}
       ELSE /\ pc' = "iam" /\ exitCode' = exitCode /\ out' = out
  /\ UNCHANGED <<script, trace, env, tools, envFile, upgVars, jobVars, lbVars, iamVars>>

\* Lines 167-216: create-policy || list-policies, create-role || get-role,
\* attach-role-policy.
AccessIam ==
  /\ script = "access_setup" /\ pc = "iam"
  /\ \E transient \in SUBSET {"aws iam create-policy", "aws iam list-policies",
                              "aws iam create-role", "aws iam get-role",
                              "aws iam attach-role-policy"} :
       LET createPolicyOk == EksAdminPolicy \notin iam /\ "aws iam create-policy" \notin transient
           policyArn == createPolicyOk \/ EksAdminPolicy \in iam
           createRoleOk == EksAdminRole \notin iam /\ "aws iam create-role" \notin transient
           roleExists == createRoleOk \/ EksAdminRole \in iam
           plan == <<"aws iam create-policy">>
                   \o (IF createPolicyOk THEN << >> ELSE <<"aws iam list-policies">>)
                   \o <<"aws iam create-role">>
                   \o (IF createRoleOk THEN << >> ELSE <<"aws iam get-role">>)
                   \o <<"aws iam attach-role-policy">>
           fails == transient
                    \cup (IF roleExists THEN {} ELSE {"aws iam get-role"})
                    \cup (IF policyArn /\ roleExists THEN {} ELSE {"aws iam attach-role-policy"})
           k == FirstAbort(plan, fails, {"aws iam list-policies", "aws iam get-role",
                                         "aws iam attach-role-policy"})
       IN /\ ShellStep(plan, k, "aws_auth")
          /\ iam' = iam \cup (IF createPolicyOk THEN {EksAdminPolicy} ELSE {})
                        \cup (IF createRoleOk /\ Ran(plan, k, "aws iam create-role")
                                THEN {EksAdminRole} ELSE {})
          /\ attached' = attached
               \cup (IF Succeeded(plan, k, fails, "aws iam attach-role-policy")
                       THEN {<<EksAdminRole, EksAdminPolicy>>} ELSE {})
          /\ out' = out \cup {"EKS Admin policy created/found: "}
  /\ UNCHANGED <<script, env, tools, envFile, clock, runNo, firstRun, clusterVars,
                 upgVars, jobVars, lbVars>>

\* Lines 218-303: node role, kubeconfig, aws-auth by kubectl or by eksctl.
\* eksctl is given the name of the role that exists by now, which it cannot
\* create again.
AccessAwsAuth ==
  /\ script = "access_setup" /\ pc = "aws_auth"
  /\ \E failing \in {"none", "aws eks describe-nodegroup", "aws eks update-kubeconfig --role-arn"},
        warned \in BOOLEAN :
       LET plan == <<"aws eks describe-nodegroup", "aws eks update-kubeconfig --role-arn">>
                   \o (IF "eksctl" \in tools
                         THEN <<"eksctl create iamserviceaccount",
                                "eksctl create iamidentitymapping (role)",
                                "eksctl create iamidentitymapping (user)">>
                         ELSE <<"kubectl apply -f aws-auth-cm.yaml --force">>)
           k == FirstAbort(plan, {failing}, {failing})
       IN /\ ShellStep(plan, k, "verify")
          /\ out' = out \cup (IF k = 0 /\ warned
                                THEN {IF "eksctl" \in tools
                                        THEN "Warning: Could not create IAM service account. It might already exist."
                                        ELSE "Warning: Could not update aws-auth ConfigMap."}
                                ELSE {})
          /\ awsAuth' = IF k # 0 \/ warned THEN awsAuth
                        ELSE IF "eksctl" \in tools
                          THEN ConfigMap(awsAuth.mapRoles \cup {EksAdminRole},
                                         awsAuth.mapUsers \cup {AdminUser})
                          ELSE ConfigMap({NodeRole, EksAdminRole}, {AdminUser})
  /\ UNCHANGED <<script, env, tools, envFile, iam, attached, clock, runNo, firstRun,
                 serviceAccount, runs, upgVars, jobVars, lbVars>>

\* Lines 305-349.
AccessVerify ==
  /\ script = "access_setup" /\ pc = "verify"
  /\ \E nodesOk \in BOOLEAN, nodesOkAssumed \in BOOLEAN,
        failing \in {"none", "aws eks update-kubeconfig --role-arn (verify)",
                     "aws sts assume-role", "aws eks update-kubeconfig"} :
       LET plan == <<"aws eks update-kubeconfig --role-arn (verify)", "kubectl get nodes">>
                   \o (IF nodesOk THEN << >>
                       ELSE <<"aws sts assume-role", "aws eks update-kubeconfig",
                              "kubectl get nodes (assumed role)">>)
           k == FirstAbort(plan, {failing}, {failing})
       IN /\ ShellEnd(plan, k)
          /\ out' = out \cup (IF k # 0 THEN {}
                              ELSE IF nodesOk \/ nodesOkAssumed THEN {"Setup complete!", "Success!"}
                              ELSE {"Setup complete!",
                                    "Error: Could not achieve cluster access after multiple attempts."})
  /\ UNCHANGED <<script, env, tools, envFile, upgVars, jobVars, lbVars, iamVars>>

\* part_003 lines 9-15.
FixConfig ==
  /\ script = "fix_access" /\ pc = "start"
  /\ ShellStep(<<"aws configure get region", "aws sts get-caller-identity">>, 0, "create_role")
  /\ UNCHANGED <<script, out, env, tools, envFile, upgVars, jobVars, lbVars, iamVars>>

\* part_003 lines 36-52.
FixCreateRole ==
  /\ script = "fix_access" /\ pc = "create_role"
  /\ \E transient \in BOOLEAN :
       LET role == StampedRole(clock)
           created == role \notin iam /\ ~transient
           exists == created \/ role \in iam
       IN /\ iam' = iam \cup (IF created THEN {role} ELSE {})
          /\ attached' = attached \cup (IF exists THEN {<<role, p>> : p \in ManagedPolicies}
                                                  ELSE {})
          /\ out' = out \cup {"Created temporary admin role: "}
  /\ ShellStep(<<"aws iam create-role", "aws iam attach-role-policy AmazonEKSClusterPolicy",
                 "aws iam attach-role-policy AmazonEKSServicePolicy", "aws iam get-role">>,
               0, "aws_auth")
  /\ UNCHANGED <<script, env, tools, envFile, clock, runNo, firstRun, clusterVars,
                 upgVars, jobVars, lbVars>>

\* A write that adds its entries to those the key already lists.
WrittenKeyMerged(earlier, written) == earlier \cup written

\* part_003 lines 72-87, direct-eks-access.sh lines 45-60: a key of data is
\* one YAML string, so kubectl patch and kubectl apply put the written string
\* in place of the string the key held.
WrittenKey(earlier, written) == written

\* part_003 lines 54-112.
FixAwsAuth ==
  /\ script = "fix_access" /\ pc = "aws_auth"
  /\ \E written \in BOOLEAN :
       LET cmExists == awsAuth.exists
           role == StampedRole(clock)
       IN /\ ShellStep(<<"aws eks update-kubeconfig", "kubectl get configmap aws-auth">>
                       \o (IF cmExists THEN <<"kubectl get configmap aws-auth -o yaml",
                                              "kubectl patch configmap aws-auth">>
                                       ELSE <<"kubectl apply -f aws-auth.yaml">>),
                       0, "verify")
          /\ awsAuth' = IF written
                          THEN ConfigMap(WrittenKey(awsAuth.mapRoles,
                                                   IF role \in iam THEN {role} ELSE {}),
                                         WrittenKey(awsAuth.mapUsers, {AdminUser}))
                          ELSE awsAuth
  /\ UNCHANGED <<script, out, env, tools, envFile, iam, attached, clock, runNo, firstRun,
                 serviceAccount, runs, upgVars, jobVars, lbVars>>

\* part_003 lines 114-134.
FixVerify ==
  /\ script = "fix_access" /\ pc = "verify"
  /\ \E nodesOk \in BOOLEAN :
       out' = out \cup {IF nodesOk THEN "EKS access verification successful!"
                                   ELSE "EKS access verification failed.", "Done!"}
  /\ ShellEnd(<<"kubectl get nodes">>, 0)
  /\ UNCHANGED <<script, env, tools, envFile, upgVars, jobVars, lbVars, iamVars>>

\* The operator starts the same script again, at the same or a later second.
RunAgain ==
  /\ script \in AccessScripts /\ pc = "done" /\ runNo = 1
  /\ runNo' = 2
  /\ firstRun' = [iam |-> iam, exitCode |-> exitCode]
  /\ \E t \in clock..MaxStamp : clock' = t
  /\ pc' = "start" /\ exitCode' = Running /\ trace' = << >> /\ out' = {}
  /\ UNCHANGED <<script, env, tools, envFile, iam, attached, clusterVars, upgVars, jobVars, lbVars>>

AccessNext ==
  \/ AccessLoadEnv
  \/ AccessCheckCreds
  \/ AccessIam
  \/ AccessAwsAuth
  \/ AccessVerify
  \/ FixConfig
  \/ FixCreateRole
  \/ FixAwsAuth
  \/ FixVerify
  \/ RunAgain

InitAccess ==
  /\ script \in AccessScripts
  /\ pc = "start"
  /\ exitCode = Running /\ trace = << >> /\ out = {}
  /\ env \in SUBSET CredNames
  /\ tools \in {AllTools, AllTools \cup {"eksctl"}}
  /\ envFile \in BOOLEAN
  /\ proceed = << >> /\ bucket = FALSE /\ infoFile = "none" /\ jobStatus = FALSE /\ continue_anyway = << >>
  /\ JobsIdle /\ LbIdle
  /\ iam \in SUBSET {EksAdminPolicy, EksAdminRole}
  /\ attached = {} /\ clock = 1 /\ runNo = 1 /\ firstRun = NoRun
  /\ awsAuth \in {NoConfigMap, ConfigMap({NodeRole}, {})}
  /\ serviceAccount = NoServiceAccount /\ runs = << >>

SpecAccess == InitAccess /\ [][AccessNext]_vars

----------------------------------------------------------------------------
(* direct-eks-access: scripts/direct-eks-access.sh, set -e at line 2 *)

\* Lines 13-21.
DirectLoadEnv ==
  /\ script = "direct_access" /\ pc = "start"
  /\ IF envFile
       THEN \E set \in SUBSET (CredNames \cup {"AWS_REGION"}),
               emptied \in SUBSET (CredNames \cup {"AWS_REGION"}) :
              /\ set \cap emptied = {}
              /\ env' = (env \ emptied) \cup set
              /\ pc' = "kubeconfig" /\ exitCode' = exitCode /\ out' = out
       ELSE /\ pc' = "done" /\ exitCode' = 1 /\ env' = env
            /\ out' = out \cup {"Error: lambda/.env file not found"}
  /\ UNCHANGED <<script, trace, tools, envFile, upgVars, jobVars, lbVars, iamVars>>

\* Lines 31-40.
DirectKubeconfig ==
  /\ script = "direct_access" /\ pc = "kubeconfig"
  /\ \E ok \in BOOLEAN :
       LET plan == <<"aws eks update-kubeconfig">>
           fails == IF ok THEN {} ELSE {"aws eks update-kubeconfig"}
           k == FirstAbort(plan, fails, Unguarded(PlanSet(plan)))
       IN IF k = 0 /\ ~ok
            THEN /\ trace' = trace \o plan /\ pc' = "done" /\ exitCode' = 1
                 /\ out' = out \cup {"Failed to update kubeconfig."}
            ELSE /\ ShellStep(plan, k, "apply_auth") /\ out' = out
  /\ UNCHANGED <<script, env, tools, envFile, upgVars, jobVars, lbVars, iamVars>>

\* Lines 58-96: kubectl apply, then the test of $? with the patch fallback.
DirectApplyAuth ==
  /\ script = "direct_access" /\ pc = "apply_auth"
  /\ \E applyOk \in BOOLEAN, visible \in BOOLEAN, patchOk \in BOOLEAN :
       LET cmExists == awsAuth.exists /\ visible
           plan == <<"kubectl apply -f aws-auth-cm.yaml">>
                   \o (IF applyOk THEN << >>
                       ELSE <<"kubectl get configmap aws-auth">>
                            \o (IF cmExists THEN <<"kubectl patch configmap aws-auth">>
                                            ELSE << >>))
           fails == (IF applyOk THEN {} ELSE {"kubectl apply -f aws-auth-cm.yaml"})
                    \cup (IF cmExists THEN {} ELSE {"kubectl get configmap aws-auth"})
                    \cup (IF patchOk THEN {} ELSE {"kubectl patch configmap aws-auth"})
           k == FirstAbort(plan, fails, Unguarded({"kubectl apply -f aws-auth-cm.yaml",
                                                   "kubectl patch configmap aws-auth"}))
           reached(cmd) == Ran(plan, k, cmd)
           passed(cmd) == reached(cmd) /\ (k = 0 \/ plan[k] # cmd)
       IN /\ ShellStep(plan, k, "test_access")
          /\ out' = out
               \cup (IF applyOk THEN {"Successfully updated aws-auth ConfigMap"}
                                ELSE {"error: kubectl apply of aws-auth failed"})
               \cup (IF ~applyOk /\ passed("kubectl apply -f aws-auth-cm.yaml")
                       THEN {"Warning: Could not update aws-auth ConfigMap.",
                             "Trying alternative approach with kubectl patch..."}
                       ELSE {})
               \cup (IF passed("kubectl get configmap aws-auth") /\ ~cmExists
                       THEN {"aws-auth ConfigMap doesn't exist and couldn't be created."}
                       ELSE {})
               \cup (IF passed("kubectl patch configmap aws-auth")
                       THEN {IF patchOk THEN "Successfully patched aws-auth ConfigMap"
                             ELSE "Failed to patch aws-auth ConfigMap. Manual intervention required."}
                       ELSE {})
          /\ awsAuth' = IF applyOk \/ (passed("kubectl patch configmap aws-auth") /\ patchOk)
                          THEN ConfigMap(awsAuth.mapRoles,
                                         WrittenKey(awsAuth.mapUsers, {AdminUser}))
                          ELSE awsAuth
  /\ UNCHANGED <<script, env, tools, envFile, iam, attached, clock, runNo, firstRun,
                 serviceAccount, runs, upgVars, jobVars, lbVars>>

\* Lines 98-125.
DirectTestAccess ==
  /\ script = "direct_access" /\ pc = "test_access"
  /\ \E nodesOk \in BOOLEAN, addonOk \in BOOLEAN :
       LET plan == <<"kubectl get nodes">>
                   \o (IF nodesOk THEN <<"aws eks create-addon">> ELSE << >>)
           fails == IF nodesOk THEN {} ELSE {"kubectl get nodes"}
           k == FirstAbort(plan, fails, Unguarded({"kubectl get nodes"}))
       IN /\ ShellEnd(plan, k)
          /\ out' = out
               \cup (IF k # 0 THEN {}
                     ELSE IF nodesOk THEN {"Success! You now have access to the EKS cluster.",
                                           "Setup complete!"}
                     ELSE {"Failed to access the cluster. Manual intervention required."})
               \cup (IF nodesOk /\ ~addonOk
                       THEN {"Warning: Could not install EKS Pod Identity Agent. It might already be installed."}
                       ELSE {})
  /\ UNCHANGED <<script, env, tools, envFile, upgVars, jobVars, lbVars, iamVars>>

DirectNext ==
  \/ DirectLoadEnv
  \/ DirectKubeconfig
  \/ DirectApplyAuth
  \/ DirectTestAccess

InitDirect ==
  /\ script = "direct_access"
  /\ pc = "start"
  /\ exitCode = Running /\ trace = << >> /\ out = {}
  /\ env \in SUBSET (CredNames \cup {"AWS_REGION"})
  /\ tools = AllTools
  /\ envFile \in BOOLEAN
  /\ proceed = << >> /\ bucket = FALSE /\ infoFile = "none" /\ jobStatus = FALSE
  /\ continue_anyway = << >>
  /\ JobsIdle /\ LbIdle
  /\ iam = {} /\ attached = {} /\ clock = 0 /\ runNo = 0 /\ firstRun = NoRun
  /\ awsAuth \in {NoConfigMap, ConfigMap({NodeRole}, {}), ConfigMap({NodeRole}, {AdminUser})}
  /\ serviceAccount = NoServiceAccount /\ runs = << >>

SpecDirect == InitDirect /\ [][DirectNext]_vars

\* An IAM user mapped by hand before either script ran.
OperatorUser == "user/operator"

AuthMapNext ==
  \/ FixConfig
  \/ FixCreateRole
  \/ FixAwsAuth
  \/ FixVerify
  \/ DirectLoadEnv
  \/ DirectKubeconfig
  \/ DirectApplyAuth
  \/ DirectTestAccess

\* fix-eks-access or direct-eks-access, started on a cluster whose aws-auth
\* may already map the node role and users.
InitAuthMap ==
  /\ script \in {"fix_access", "direct_access"}
  /\ pc = "start"
  /\ exitCode = Running /\ trace = << >> /\ out = {}
  /\ env \in SUBSET CredNames
  /\ tools = AllTools
  /\ envFile \in BOOLEAN
  /\ proceed = << >> /\ bucket = FALSE /\ infoFile = "none" /\ jobStatus = FALSE
  /\ continue_anyway = << >>
  /\ JobsIdle /\ LbIdle
  /\ iam = {} /\ attached = {} /\ clock = 1 /\ runNo = 1 /\ firstRun = NoRun
  /\ awsAuth \in {NoConfigMap} \cup {ConfigMap({NodeRole}, users) :
                                      users \in SUBSET {AdminUser, OperatorUser}}
  /\ serviceAccount = NoServiceAccount /\ runs = << >>

SpecAuthMap == InitAuthMap /\ [][AuthMapNext]_vars

----------------------------------------------------------------------------
(* Load-balancer identity wiring (IRSA), neither script under set -e:        *)
(*   "lb_irsa": setup-loadbalancer-irsa, scripts/setup-eks-access.sh 51-210  *)
(*   "lb_sa":   scripts/create-lb-service-account.sh lines 1-53              *)

IrsaScripts == {"lb_irsa", "lb_sa"}

\* $ROLE_ARN when the command substitution that sets it printed nothing.
EmptyArn == <<"role", "", 0>>

\* setup-eks-access.sh lines 59-94.
IrsaOidc ==
  /\ script = "lb_irsa" /\ pc = "start"
  /\ \E oidcEmpty \in BOOLEAN, registered \in BOOLEAN :
       IF oidcEmpty
         THEN /\ trace' = Append(trace, "aws eks describe-cluster")
              /\ pc' = "done" /\ exitCode' = 1
              /\ out' = out \cup {"Error: Failed to get OIDC provider URL for the EKS cluster."}
         ELSE /\ ShellStep(<<"aws eks describe-cluster", "aws iam list-open-id-connect-providers">>
                           \o (IF registered THEN << >>
                               ELSE <<"aws eks associate-identity-provider-config">>),
                           0, "identity")
              /\ out' = out \cup {IF registered THEN "OIDC provider already registered in IAM."
                                                ELSE "OIDC provider registered."}
  /\ UNCHANGED <<script, env, tools, envFile, upgVars, jobVars, lbVars, iamVars>>

\* An attach-role-policy that stands after the if statement.
AttachesPolicyAlways(roleFound, roleCreated) == roleFound \/ roleCreated

\* setup-eks-access.sh lines 126-176: create-role and attach-role-policy stand
\* in the else branch of `if aws iam get-role`; the branch of an existing
\* role only reads its ARN.
AttachesPolicy(roleFound, roleCreated) == roleCreated

\* setup-eks-access.sh lines 96-190: policy, role, ServiceAccount annotation.
IrsaIdentity ==
  /\ script = "lb_irsa" /\ pc = "identity"
  /\ \E createPolicyOk \in BOOLEAN, createRoleOk \in BOOLEAN, applyOk \in BOOLEAN :
       LET policyFound == LbPolicy \in iam
           policyArn == policyFound \/ createPolicyOk
           roleFound == LbRole \in iam
           roleCreated == ~roleFound /\ createRoleOk
           ROLE_ARN == IF roleFound \/ roleCreated THEN LbRole ELSE EmptyArn
           plan == <<"aws iam get-policy">>
                   \o (IF policyFound THEN << >>
                       ELSE <<"curl iam_policy.json", "aws iam create-policy">>)
                   \o <<"aws iam get-role">>
                   \o (IF roleFound THEN <<"aws iam get-role --query Role.Arn">>
                       ELSE <<"aws iam create-role", "aws iam attach-role-policy">>)
                   \o <<"kubectl apply -f service-account.yaml">>
       IN /\ ShellStep(plan, 0, "helm")
          /\ iam' = iam \cup (IF ~policyFound /\ createPolicyOk THEN {LbPolicy} ELSE {})
                        \cup (IF roleCreated THEN {LbRole} ELSE {})
          /\ attached' = attached \cup (IF AttachesPolicy(roleFound, roleCreated) /\ policyArn
                                          THEN {<<LbRole, LbPolicy>>} ELSE {})
          /\ serviceAccount' = IF applyOk THEN [roleArn |-> ROLE_ARN] ELSE serviceAccount
          /\ out' = out \cup {"=== IRSA setup for AWS Load Balancer Controller complete ==="}
                        \cup (IF applyOk THEN {} ELSE {"error: kubectl apply of the ServiceAccount failed"})
  /\ UNCHANGED <<script, env, tools, envFile, clock, runNo, firstRun, awsAuth,
                 runs, upgVars, jobVars, lbVars>>

\* setup-eks-access.sh lines 195-210.
IrsaHelm ==
  /\ script = "lb_irsa" /\ pc = "helm"
  /\ \E rolledOut \in BOOLEAN :
       out' = out \cup {"=== IRSA setup complete! ==="}
                  \cup (IF rolledOut THEN {} ELSE {"error: deployment exceeded its progress deadline"})
  /\ ShellEnd(<<"helm upgrade --install aws-load-balancer-controller",
                "kubectl rollout restart", "kubectl rollout status">>, 0)
  /\ UNCHANGED <<script, env, tools, envFile, upgVars, jobVars, lbVars, iamVars>>

\* create-lb-service-account.sh lines 9-42: the ARN is built from the account
\* id and the role name; the role is not looked up.
SaApply ==
  /\ script = "lb_sa" /\ pc = "start"
  /\ \E applyOk \in BOOLEAN :
       /\ serviceAccount' = IF applyOk THEN [roleArn |-> LbRole] ELSE serviceAccount
       /\ out' = out \cup (IF applyOk THEN {} ELSE {"error: kubectl apply of the ServiceAccount failed"})
  /\ ShellStep(<<"aws sts get-caller-identity", "kubectl apply -f aws-lb-service-account.yaml">>,
               0, "restart")
  /\ UNCHANGED <<script, env, tools, envFile, iam, attached, clock, runNo, firstRun, awsAuth,
                 runs, upgVars, jobVars, lbVars>>

\* create-lb-service-account.sh lines 44-53.
SaRestart ==
  /\ script = "lb_sa" /\ pc = "restart"
  /\ \E rolledOut \in BOOLEAN :
       out' = out \cup {"=== Service Account Setup Complete ==="}
                  \cup (IF rolledOut THEN {} ELSE {"error: deployment exceeded its progress deadline"})
  /\ ShellEnd(<<"kubectl rollout restart", "kubectl rollout status">>, 0)
  /\ UNCHANGED <<script, env, tools, envFile, upgVars, jobVars, lbVars, iamVars>>

IrsaNext ==
  \/ IrsaOidc
  \/ IrsaIdentity
  \/ IrsaHelm
  \/ SaApply
  \/ SaRestart

InitIrsa ==
  /\ script \in IrsaScripts
  /\ pc = "start"
  /\ exitCode = Running /\ trace = << >> /\ out = {}
  /\ env = CredNames
  /\ tools = AllTools
  /\ envFile \in BOOLEAN
  /\ proceed = << >> /\ bucket = FALSE /\ infoFile = "none" /\ jobStatus = FALSE
  /\ continue_anyway = << >>
  /\ JobsIdle /\ LbIdle
  /\ iam \in SUBSET {LbPolicy, LbRole}
  /\ attached \in {a \in SUBSET {<<LbRole, LbPolicy>>} : a # {} => {LbRole, LbPolicy} \subseteq iam}
  /\ clock = 0 /\ runNo = 0 /\ firstRun = NoRun
  /\ ClusterIdle

SpecIrsa == InitIrsa /\ [][IrsaNext]_vars

----------------------------------------------------------------------------
(* prepare-eks-environment started twice at once against one cluster:        *)
(* setup_eks_access, scripts/apply-aws-auth.sh lines 138-213 (no set -e).    *)
(* Every kubectl call of a run is one step; the steps of the two runs        *)
(* interleave freely.  The API server answers every read.                    *)

ConcurrentRuns == {1, 2}

\* Line 150: what aws sts get-caller-identity prints for the caller of run p.
Caller(p) == IF p = 1 THEN <<"user", "alice", 0>> ELSE <<"role", "ci-deployer", 0>>

\* Line 161: grep -q "$IAM_ARN" on the mapRoles text.  An empty pattern matches
\* any line; the ARNs of the model are not substrings of one another.
GrepQ(IAM_ARN, mapRoles) == IAM_ARN = EmptyArn \/ IAM_ARN \in mapRoles

\* The indentation of the lines of one mapRoles entry, as lines 197-200 write
\* it: "- rolearn:", "  username:", "  groups:", "    - system:masters".
EntryIndents == <<0, 2, 2, 4>>

\* Line 170: what jq -r '.data.mapRoles' prints, as the indentation of each
\* line: the lines of the entries, or the one line "null" when the key holds
\* no entry.
MapRolesIndents(mapRoles) ==
  IF mapRoles = {} THEN <<0>>
  ELSE [i \in 1..(Len(EntryIndents) * Cardinality(mapRoles)) |->
          EntryIndents[((i - 1) % Len(EntryIndents)) + 1]]

\* Lines 167-170: in the here-document the command substitution stands after
\* four spaces; only the first line of its output follows them, the other
\* lines are copied as printed.
HereDocIndents(printed) ==
  [i \in 1..Len(printed) |-> IF i = 1 THEN printed[i] + 4 ELSE printed[i]]

\* Lines 169-175: `mapRoles: |` opens a YAML literal block whose indentation
\* is that of its first line; a later line indented less ends the block and
\* is read as a further key of data, which is not a patch of a ConfigMap.
PatchWellFormed(seen) ==
  LET doc == HereDocIndents(MapRolesIndents(seen))
  IN \A i \in 1..Len(doc) : doc[i] >= doc[1]

\* A patch that carried the resourceVersion its file was built from would be
\* refused once the ConfigMap has changed.
PatchAppliesIfUnchanged(seen, current) == PatchWellFormed(seen) /\ seen = current

\* Line 178: kubectl patch sends the file's text and no resourceVersion, so a
\* well-formed patch is applied whatever the ConfigMap holds by then.
PatchApplies(seen, current) == PatchWellFormed(seen)

\* rc: the exit status of the run's kubectl patch or apply ($?, never read);
\* err: what that command printed on failure.
NotStarted ==
  [pc |-> "setup_eks_access", IAM_ARN |-> NoArn, seen |-> {}, patch |-> {}, rc |-> 0,
   err |-> ""]

Call(p, cmds) == trace \o [i \in 1..Len(cmds) |-> <<p, cmds[i]>>]

\* Lines 139-151: kubeconfig, kubectl get svc, the caller's ARN (empty when
\* the sts call fails: nothing checks it).
SetupIdentity(p) ==
  /\ script = "prepare" /\ pc = "setup_eks_access"
  /\ runs[p].pc = "setup_eks_access"
  /\ \E known \in BOOLEAN :
       runs' = [runs EXCEPT ![p].pc = "check",
                            ![p].IAM_ARN = IF known THEN Caller(p) ELSE EmptyArn]
  /\ trace' = Call(p, <<"aws eks update-kubeconfig", "kubectl get svc",
                        "aws sts get-caller-identity">>)
  /\ out' = out \cup {"Current IAM identity:"}
  /\ UNCHANGED <<script, pc, exitCode, env, tools, envFile, upgVars, jobVars, lbVars,
                 iam, attached, clock, runNo, firstRun, awsAuth, serviceAccount>>

\* Line 157: if kubectl get configmap aws-auth -n kube-system
SetupCheck(p) ==
  /\ script = "prepare" /\ pc = "setup_eks_access"
  /\ runs[p].pc = "check"
  /\ runs' = [runs EXCEPT ![p].pc = IF awsAuth.exists THEN "grep" ELSE "create"]
  /\ trace' = Call(p, <<"kubectl get configmap aws-auth">>)
  /\ out' = out \cup {IF awsAuth.exists THEN "aws-auth ConfigMap exists"
                                        ELSE "aws-auth ConfigMap not found. Creating..."}
  /\ UNCHANGED <<script, pc, exitCode, env, tools, envFile, upgVars, jobVars, lbVars,
                 iam, attached, clock, runNo, firstRun, awsAuth, serviceAccount>>

\* Lines 161-164: the first read of mapRoles.
SetupGrep(p) ==
  /\ script = "prepare" /\ pc = "setup_eks_access"
  /\ runs[p].pc = "grep"
  /\ LET found == GrepQ(runs[p].IAM_ARN, awsAuth.mapRoles)
     IN /\ runs' = [runs EXCEPT ![p].pc = IF found THEN "returned" ELSE "build"]
        /\ out' = out \cup {IF found THEN "IAM identity already in aws-auth ConfigMap"
                                     ELSE "IAM identity not found in aws-auth ConfigMap. Adding..."}
  /\ trace' = Call(p, <<"kubectl get configmap aws-auth -o json">>)
  /\ UNCHANGED <<script, pc, exitCode, env, tools, envFile, upgVars, jobVars, lbVars,
                 iam, attached, clock, runNo, firstRun, awsAuth, serviceAccount>>

\* Lines 167-175: aws-auth-patch.yaml is the mapRoles read now plus the
\* caller's own entry.
SetupBuild(p) ==
  /\ script = "prepare" /\ pc = "setup_eks_access"
  /\ runs[p].pc = "build"
  /\ runs' = [runs EXCEPT ![p].pc = "patch",
                          ![p].seen = awsAuth.mapRoles,
                          ![p].patch = awsAuth.mapRoles \cup {runs[p].IAM_ARN}]
  /\ trace' = Call(p, <<"kubectl get configmap aws-auth -o json">>)
  /\ UNCHANGED <<script, pc, exitCode, out, env, tools, envFile, upgVars, jobVars, lbVars,
                 iam, attached, clock, runNo, firstRun, awsAuth, serviceAccount>>

\* Lines 178-183: kubectl patch replaces data.mapRoles by the file's text; its
\* exit status is not looked at.
SetupPatch(p) ==
  /\ script = "prepare" /\ pc = "setup_eks_access"
  /\ runs[p].pc = "patch"
  /\ \E accepted \in BOOLEAN :
       LET applied == accepted /\ PatchApplies(runs[p].seen, awsAuth.mapRoles)
       IN /\ awsAuth' = IF applied THEN ConfigMap(runs[p].patch, awsAuth.mapUsers)
                                   ELSE awsAuth
          /\ runs' = [runs EXCEPT ![p].pc = "returned", ![p].rc = IF applied THEN 0 ELSE 1,
                                  ![p].err = IF applied THEN ""
                                             ELSE IF accepted THEN "error: patch refused"
                                             ELSE "Unable to connect to the server"]
  /\ trace' = Call(p, <<"kubectl patch configmap aws-auth">>)
  /\ out' = out \cup {"aws-auth ConfigMap updated"}
  /\ UNCHANGED <<script, pc, exitCode, env, tools, envFile, upgVars, jobVars, lbVars,
                 iam, attached, clock, runNo, firstRun, serviceAccount>>

\* Lines 185-209: kubectl apply of a ConfigMap that holds the caller's entry
\* only; apply sets data.mapRoles and leaves the keys the file does not name.
SetupCreate(p) ==
  /\ script = "prepare" /\ pc = "setup_eks_access"
  /\ runs[p].pc = "create"
  /\ \E accepted \in BOOLEAN :
       /\ awsAuth' = IF accepted THEN ConfigMap({runs[p].IAM_ARN}, awsAuth.mapUsers)
                                 ELSE awsAuth
       /\ runs' = [runs EXCEPT ![p].pc = "returned", ![p].rc = IF accepted THEN 0 ELSE 1,
                               ![p].err = IF accepted THEN ""
                                          ELSE "Unable to connect to the server"]
  /\ trace' = Call(p, <<"kubectl apply -f aws-auth-cm.yaml">>)
  /\ out' = out \cup {"aws-auth ConfigMap created"}
  /\ UNCHANGED <<script, pc, exitCode, env, tools, envFile, upgVars, jobVars, lbVars,
                 iam, attached, clock, runNo, firstRun, serviceAccount>>

ConcurrentNext ==
  \E p \in ConcurrentRuns :
    \/ SetupIdentity(p)
    \/ SetupCheck(p)
    \/ SetupGrep(p)
    \/ SetupBuild(p)
    \/ SetupPatch(p)
    \/ SetupCreate(p)

\* Both runs have passed configure_aws_cli (line 509) and enter line 510.
InitConcurrent ==
  /\ script = "prepare"
  /\ pc = "setup_eks_access"
  /\ exitCode = Running /\ trace = << >> /\ out = {}
  /\ env = CredNames \cup {"EKS_CLUSTER_NAME", "AWS_REGION"}
  /\ tools = AllTools
  /\ envFile = FALSE
  /\ proceed = << >> /\ bucket = FALSE /\ infoFile = "none" /\ jobStatus = FALSE
  /\ continue_anyway = << >>
  /\ JobsIdle /\ LbIdle
  /\ iam = {} /\ attached = {} /\ clock = 0 /\ runNo = 0 /\ firstRun = NoRun
  /\ awsAuth \in {NoConfigMap, ConfigMap({}, {AdminUser}), ConfigMap({NodeRole}, {}),
                  ConfigMap({NodeRole, Caller(1)}, {})}
  /\ serviceAccount = NoServiceAccount
  /\ runs = [p \in ConcurrentRuns |-> NotStarted]

SpecConcurrent == InitConcurrent /\ [][ConcurrentNext]_vars

MaxRuns == 3   \* the most times the script is run in a row

\* The same caller runs the script again after it returned.
SetupAgain(p) ==
  /\ script = "prepare" /\ pc = "setup_eks_access"
  /\ runs[p].pc = "returned" /\ runNo < MaxRuns
  /\ runNo' = runNo + 1
  /\ runs' = [runs EXCEPT ![p] = NotStarted]
  /\ trace' = << >> /\ out' = {}
  /\ UNCHANGED <<script, pc, exitCode, env, tools, envFile, upgVars, jobVars, lbVars,
                 iam, attached, clock, firstRun, awsAuth, serviceAccount>>

RerunNext ==
  \/ SetupIdentity(1)
  \/ SetupCheck(1)
  \/ SetupGrep(1)
  \/ SetupBuild(1)
  \/ SetupPatch(1)
  \/ SetupCreate(1)
  \/ SetupAgain(1)

\* One caller, one run after the other, on a cluster without aws-auth, with
\* an aws-auth that has no mapRoles, or with one that maps the node role.
InitRerun ==
  /\ script = "prepare"
  /\ pc = "setup_eks_access"
  /\ exitCode = Running /\ trace = << >> /\ out = {}
  /\ env = CredNames \cup {"EKS_CLUSTER_NAME", "AWS_REGION"}
  /\ tools = AllTools
  /\ envFile = FALSE
  /\ proceed = << >> /\ bucket = FALSE /\ infoFile = "none" /\ jobStatus = FALSE
  /\ continue_anyway = << >>
  /\ JobsIdle /\ LbIdle
  /\ iam = {} /\ attached = {} /\ clock = 0 /\ runNo = 1 /\ firstRun = NoRun
  /\ awsAuth \in {NoConfigMap, ConfigMap({}, {AdminUser}), ConfigMap({NodeRole}, {}),
                  ConfigMap({NodeRole, Caller(1)}, {})}
  /\ serviceAccount = NoServiceAccount
  /\ runs = [p \in {1} |-> NotStarted]

SpecRerun == InitRerun /\ [][RerunNext]_vars

----------------------------------------------------------------------------
(* tag-eks-subnets: scripts/tag-eks-subnets.sh, lines 1-66 (no set -e) *)

MaxSubnets == 2   \* the most subnets the VPC holds

\* A subnet's route table: associated with a route to an internet gateway,
\* associated without one, or no explicit association (the main route table).
SubnetKinds == {"public", "private", "unassociated"}

ElbTag == "kubernetes.io/role/elb=1"

InternalElbTag == "kubernetes.io/role/internal-elb=1"

ClusterTag == "kubernetes.io/cluster/milvus-cluster=shared"

\* Lines 9-39: credentials, VPC lookup, subnet lookup.
TagLookup ==
  /\ script = "tag_subnets" /\ pc = "start"
  /\ \E vpcFound \in BOOLEAN, listed \in BOOLEAN :
       IF ~vpcFound
         THEN /\ trace' = Append(trace, "aws eks describe-cluster")
              /\ pc' = "done" /\ exitCode' = 1 /\ SUBNET_IDS' = SUBNET_IDS
              /\ out' = out \cup {"Error: Failed to get VPC ID for the EKS cluster."}
         ELSE /\ trace' = trace \o <<"aws eks describe-cluster", "aws ec2 describe-subnets">>
              /\ IF ~listed \/ vpcSubnets = << >>
                   THEN /\ pc' = "done" /\ exitCode' = 1 /\ SUBNET_IDS' = SUBNET_IDS
                        /\ out' = out \cup {"Error: No subnets found in VPC"}
                   ELSE /\ pc' = "tag_loop" /\ exitCode' = exitCode
                        /\ SUBNET_IDS' = [i \in 1..Len(vpcSubnets) |-> i]
                        /\ out' = out \cup {"Tagging subnets for EKS load balancer use..."}
  /\ UNCHANGED <<script, env, tools, envFile, elapsed, ret, externalIp, lambdaHost,
                 MILVUS_ENDPOINT, vpcSubnets, subnetTags, upgVars, jobVars, iamVars>>

\* Line 47: [ "$ROUTE_TABLE_ID" != "None" ].
RouteTableUsable(ROUTE_TABLE_ID) == ROUTE_TABLE_ID # "None"

\* Lines 43-61: one iteration of `for SUBNET_ID in $SUBNET_IDS`.  A failed
\* lookup leaves its variable empty; create-tags adds a tag and removes none.
TagSubnet ==
  /\ script = "tag_subnets" /\ pc = "tag_loop" /\ SUBNET_IDS # << >>
  /\ \E failing \in {"none", "aws ec2 describe-route-tables (association)",
                     "aws ec2 describe-route-tables (routes)",
                     "aws ec2 create-tags (role)", "aws ec2 create-tags (cluster)"} :
       LET n == Head(SUBNET_IDS)
           ROUTE_TABLE_ID ==
             IF failing = "aws ec2 describe-route-tables (association)" THEN ""
             ELSE IF vpcSubnets[n] = "unassociated" THEN "None" ELSE "rtb"
           HAS_IGW ==
             IF ROUTE_TABLE_ID = "rtb" /\ vpcSubnets[n] = "public"
                /\ failing # "aws ec2 describe-route-tables (routes)"
               THEN "igw" ELSE ""
           role == IF HAS_IGW # "" THEN ElbTag ELSE InternalElbTag
           added == (IF failing = "aws ec2 create-tags (role)" THEN {} ELSE {role})
                      \cup (IF failing = "aws ec2 create-tags (cluster)" THEN {} ELSE {ClusterTag})
       IN IF RouteTableUsable(ROUTE_TABLE_ID)
            THEN /\ subnetTags' = [subnetTags EXCEPT ![n] = @ \cup added]
                 /\ trace' = trace \o <<"aws ec2 describe-route-tables (association)",
                                        "aws ec2 describe-route-tables (routes)",
                                        "aws ec2 create-tags (role)",
                                        "aws ec2 create-tags (cluster)">>
                 /\ out' = out \cup {IF HAS_IGW # "" THEN "is public, tagging with kubernetes.io/role/elb=1"
                                     ELSE "is private, tagging with kubernetes.io/role/internal-elb=1"}
            ELSE /\ subnetTags' = subnetTags
                 /\ trace' = Append(trace, "aws ec2 describe-route-tables (association)")
                 /\ out' = out
  /\ SUBNET_IDS' = Tail(SUBNET_IDS)
  /\ UNCHANGED <<script, pc, exitCode, env, tools, envFile, elapsed, ret, externalIp, lambdaHost,
                 MILVUS_ENDPOINT, vpcSubnets, upgVars, jobVars, iamVars>>

\* Lines 63-66: the summary.
TagSummary ==
  /\ script = "tag_subnets" /\ pc = "tag_loop" /\ SUBNET_IDS = << >>
  /\ pc' = "done" /\ exitCode' = 0
  /\ out' = out \cup {"=== Subnet tagging complete ===",
                      "All subnets are tagged with kubernetes.io/cluster/milvus-cluster=shared"}
  /\ UNCHANGED <<script, trace, env, tools, envFile, upgVars, jobVars, lbVars, iamVars>>

TagNext == TagLookup \/ TagSubnet \/ TagSummary

\* A VPC of up to MaxSubnets subnets; a subnet may carry a role tag from an
\* earlier tagging.
InitTag ==
  /\ script = "tag_subnets"
  /\ pc = "start"
  /\ exitCode = Running /\ trace = << >> /\ out = {}
  /\ env = {} /\ tools = AllTools /\ envFile \in BOOLEAN
  /\ proceed = << >> /\ bucket = FALSE /\ infoFile = "none" /\ jobStatus = FALSE
  /\ continue_anyway = << >>
  /\ JobsIdle /\ IamIdle
  /\ elapsed = 0 /\ ret = NotReturned /\ externalIp = ""
  /\ lambdaHost = "unset" /\ MILVUS_ENDPOINT = ""
  /\ vpcSubnets \in UNION {[1..n -> SubnetKinds] : n \in 0..MaxSubnets}
  /\ subnetTags \in [1..Len(vpcSubnets) -> {{}, {ElbTag}, {InternalElbTag}}]
  /\ SUBNET_IDS = << >>

SpecTag == InitTag /\ [][TagNext]_vars

InitUpgrade ==
  /\ script = "upgrade"
  /\ pc = "start"
  /\ exitCode = Running
  /\ trace = << >>
  /\ out = {}
  /\ env \in SUBSET UpgradeEnvNames
  /\ tools \in {AllTools, AllTools \ {"helm"}}
  /\ envFile = FALSE
  /\ proceed = << >>
  /\ bucket \in BOOLEAN
  /\ infoFile \in {"none", "backup-old"}
  /\ jobStatus = FALSE
  /\ continue_anyway = << >>
  /\ JobsIdle /\ LbIdle /\ IamIdle

SpecUpgrade == InitUpgrade /\ [][UpgradeNext]_vars

SpecJobs == InitJobs /\ [][JobsNext]_vars

----------------------------------------------------------------------------
(* Properties of the upgrade orchestrator *)

\* The calls of the upgrade script that change cloud or cluster state.
MutatingCalls ==
  {"aws s3 mb", "kubectl apply -f milvus-backup-job.yaml", "helm upgrade",
   "kubectl apply -f milvus-restore-job.yaml"}

StageEvents ==
  <<"enter:CHECK_RESOURCES", "exit:CHECK_RESOURCES", "enter:CONFIRM", "exit:CONFIRM",
    "enter:BACKUP", "exit:BACKUP", "enter:UPGRADE", "exit:UPGRADE",
    "enter:RESTORE", "exit:RESTORE", "enter:VERIFY", "exit:VERIFY">>

IsStageEvent(x) == Has(StageEvents, x)

IsPrefix(p, q) == Len(p) <= Len(q) /\ \A i \in 1..Len(p) : p[i] = q[i]

Before(seq, x, y) == Has(seq, x) /\ IndexOf(seq, x) < IndexOf(seq, y)

\* C1: once the CONFIRM prompt was answered with anything but exactly "y" or
\* "Y", the script has exited with status 0 and its run holds no mutating call
\* (no bucket creation, no backup job, no helm upgrade, no restore job).
C1_AbortOnDecline ==
  (Has(trace, "enter:CONFIRM") /\ proceed \notin {<<"y">>, <<"Y">>})
    => /\ pc = "done" /\ exitCode = 0
       /\ \A i \in 1..Len(trace) : trace[i] \notin MutatingCalls

C1_Witness ==
  /\ Has(trace, "enter:CONFIRM") /\ proceed = <<"y", "e", "s">>
  /\ exitCode = 0 /\ bucket = FALSE

\* C2: the stages are entered in the order CHECK_RESOURCES, CONFIRM, BACKUP,
\* UPGRADE, RESTORE, VERIFY, each at most once and only after the previous one
\* has ended; helm upgrade comes after the end of BACKUP and the restore job
\* is applied after the end of UPGRADE.
C2_LinearPipeline ==
  /\ IsPrefix(SelectSeq(trace, IsStageEvent), StageEvents)
  /\ Has(trace, "helm upgrade") => Before(trace, "exit:BACKUP", "helm upgrade")
  /\ Has(trace, "kubectl apply -f milvus-restore-job.yaml")
       => Before(trace, "exit:UPGRADE", "kubectl apply -f milvus-restore-job.yaml")

C2_Witness ==
  /\ pc = "done" /\ Has(trace, "exit:VERIFY")
  /\ Has(trace, "helm upgrade") /\ Has(trace, "kubectl apply -f milvus-restore-job.yaml")

----------------------------------------------------------------------------
(* Properties of the backup and restore jobs *)

\* The types the restore job is meant to recognise (keys of dtype_map).
RecognizedTypes == {"INT64", "FLOAT", "FLOAT_VECTOR", "BINARY_VECTOR", "VARCHAR"}

AllRecognized(d) ==
  \A c \in CollSet : \A i \in 1..Len(d[c].fields) : d[c].fields[i].dtype \in RecognizedTypes

RestoreCompleted ==
  script = "restore-job" /\ pc = "done" /\ exitCode = 0 /\ "Restore completed" \in out

\* The restore loop has finished its iteration for collection c.
Restored(c) ==
  /\ script = "restore-job"
  /\ pc = "restore_loop" \/ RestoreCompleted
  /\ Has(BackedUp(s3), c) /\ ~Has(todo, c)

\* C3: when every field of every backed-up collection has a recognised type,
\* backup followed by restore leaves each backed-up collection in the database
\* with the same list of fields in the same order.
C3_RoundTrip ==
  (RestoreCompleted /\ AllRecognized(dbAtBackup))
    => \A c \in CollSet : dbAtBackup[c].exists => db[c] = dbAtBackup[c]

DocsFields ==
  <<[name |-> "id", dtype |-> "INT64", is_primary |-> TRUE, params |-> NoParams],
    [name |-> "vec", dtype |-> "FLOAT_VECTOR", is_primary |-> FALSE,
     params |-> DimParams(128)]>>

\* C4: a backed-up collection docs with fields id (INT64, primary) and vec
\* (FLOAT_VECTOR, dim 128) exists after restore with exactly those two fields,
\* vec being a float vector of dimension 128.
C4_DocsRoundTrip ==
  (RestoreCompleted /\ dbAtBackup["docs"] = Present(DocsFields))
    => db["docs"] = Present(DocsFields)

----------------------------------------------------------------------------
(* Properties of wait-for-milvus-endpoint *)

Polls == Count(trace, "kubectl get svc milvus")

InWaitForLb == script = "wait-endpoint" /\ pc = "wait_for_lb"

\* C7: wait_for_lb polls every 15 s while elapsed < 600 s; when no poll sees a
\* hostname it ends after 40 polls with the timeout message and status 1; it
\* returns 0 at the first poll whose hostname is non-empty and not "<pending>".
C7_BoundedPolling ==
  /\ InWaitForLb => /\ elapsed = PollInterval * Polls /\ elapsed <= 600
                    /\ Polls > 0 => externalIp \in {"", "<pending>"}
  /\ (script = "wait-endpoint" /\ pc = "main" /\ ret = 1)
       => /\ Polls = 40 /\ elapsed = 600
          /\ "Timed out waiting for LoadBalancer" \in out
          /\ externalIp \in {"", "<pending>"}
  /\ (script = "wait-endpoint" /\ pc = "main" /\ ret = 0)
       => /\ externalIp \notin {"", "<pending>"}
          /\ Polls = (elapsed \div PollInterval) + 1 /\ Polls <= 40
          /\ "Timed out waiting for LoadBalancer" \notin out
  /\ (script = "wait-endpoint" /\ pc = "main") => ret \in {0, 1}

C7_Witness ==
  script = "wait-endpoint" /\ pc = "main" /\ ret = 1 /\ Polls = 40

----------------------------------------------------------------------------
(* Required variables, defaults and the calls made before the checks *)

RequiredVars(s) ==
  CASE s = "upgrade" -> CredNames \cup {"EKS_CLUSTER_NAME", "MILVUS_BUCKET_NAME"}
    [] s = "prepare" -> CredNames \cup {"EKS_CLUSTER_NAME"}
    [] s = "deploy" -> CredNames

CheckedTools(s) ==
  CASE s = "upgrade" -> {"aws", "kubectl", "helm"}
    [] s = "prepare" -> {"aws", "kubectl", "helm", "jq"}
    [] s = "deploy" -> {}

\* The script has not yet reached the end of its variable checks.
InChecks == pc = "start" \/ (script = "deploy" /\ pc = "creds")

\* C8: in upgrade-milvus-to-cluster, prepare-eks-environment and
\* deploy-milvus-to-eks, once the variable checks are over a missing required
\* variable (the two AWS credentials, and EKS_CLUSTER_NAME / MILVUS_BUCKET_NAME
\* where required) means the script has exited non-zero with no aws, kubectl
\* or helm call made; and a script that ended before its first call ended
\* non-zero because a required variable, a checked tool or lambda/.env is
\* missing, never because AWS_REGION, EKS_NAMESPACE or
\* MILVUS_BACKUP_BUCKET_NAME is unset.
C8_FatalClassification ==
  script \in {"upgrade", "prepare", "deploy"} =>
    /\ (~InChecks /\ ~(RequiredVars(script) \subseteq env))
         => (pc = "done" /\ exitCode > 0 /\ trace = << >>)
    /\ (pc = "done" /\ trace = << >>)
         => /\ exitCode > 0
            /\ \/ ~(RequiredVars(script) \subseteq env)
               \/ ~(CheckedTools(script) \subseteq tools)
               \/ (script = "deploy" /\ ~envFile)

C8_Witness ==
  /\ script = "prepare" /\ pc = "done" /\ exitCode = 1 /\ trace = << >>
  /\ "EKS_CLUSTER_NAME" \in env /\ "AWS_ACCESS_KEY_ID" \in env
  /\ "AWS_SECRET_ACCESS_KEY" \notin env
  /\ {"AWS_REGION", "EKS_NAMESPACE", "MILVUS_BACKUP_BUCKET_NAME"} \cap env = {}

AddonFailed == "An error occurred when calling the CreateAddon operation" \in out

AfterStep3 == {"step4", "step5", "irsa", "lb_install", "tag_subnets", "step6", "end_of_source"}

\* C9: in the deploy script, when aws eks create-addon has failed, the warning
\* is printed and the script goes on: aws eks describe-addon is called next,
\* the EBS CSI driver install is called before any later step, the script
\* can only stop at a command that comes after create-addon and describe-addon,
\* and at the end of the script the Milvus chart install has been called.
C9_AdvisoryAddonFailure ==
  (script = "deploy" /\ AddonFailed) =>
    /\ "Warning: Could not install EKS Pod Identity Agent add-on." \in out
    /\ Before(trace, "aws eks create-addon", "aws eks describe-addon")
    /\ Has(trace, "aws eks describe-addon")
    /\ pc # "step3" => (Has(trace, "kubectl apply -k aws-ebs-csi-driver") /\ Before(trace, "aws eks describe-addon", "kubectl apply -k aws-ebs-csi-driver"))
    /\ pc \in AfterStep3 => exitCode = Running
    /\ pc = "done" => /\ Has(trace, "kubectl apply -k aws-ebs-csi-driver")
                      /\ trace[Len(trace)] \notin {"aws eks create-addon", "aws eks describe-addon"}
    /\ pc = "end_of_source" => Has(trace, "helm upgrade --install milvus")

C9_Witness ==
  /\ script = "deploy" /\ AddonFailed /\ pc = "end_of_source"
  /\ Has(trace, "kubectl apply -k aws-ebs-csi-driver")
  /\ Has(trace, "helm upgrade --install milvus")

\* C10: when an access bootstrap script (Complete EKS Access Setup or
\* fix-eks-access) that ran to a zero exit status is run a second time, the
\* second run creates no IAM policy or role: at every point of the second run
\* the set of IAM objects is the set the first run left.
C10_IdempotentBootstrap ==
  (script \in AccessScripts /\ runNo = 2 /\ firstRun.exitCode = 0) => iam = firstRun.iam

----------------------------------------------------------------------------
(* The backup-failure gate and the fail-soft policy of the upgrade script *)

\* The status test of create_backup found no succeeded count.
BackupFailed == "Backup failed. Check job logs:" \in out

\* C11: when the backup job's status shows no succeeded count, the job logs
\* are printed and the operator is prompted; after the answer "y" or "Y" the
\* script goes on to UPGRADE and this run has not written
\* milvus-backup-info.env; after any other answer the script has ended with
\* status 1 and helm upgrade is not among its calls.
C11_BackupFailureGate ==
  (script = "upgrade" /\ BackupFailed) =>
    /\ Has(trace, "kubectl logs job/milvus-backup")
    /\ "Do you want to continue with the upgrade anyway? (y/N)" \in out
    /\ infoFile # "backup-new"
    /\ continue_anyway \in {<<"y">>, <<"Y">>}
         => /\ Has(trace, "exit:BACKUP")
            /\ pc = "upgrade" \/ Has(trace, "helm upgrade")
            /\ "Upgrade aborted." \notin out
    /\ continue_anyway \notin {<<"y">>, <<"Y">>}
         => /\ pc = "done" /\ exitCode = 1
            /\ ~Has(trace, "helm upgrade")

C11_Witness ==
  /\ script = "upgrade" /\ BackupFailed /\ continue_anyway = <<"n">>
  /\ pc = "done" /\ exitCode = 1 /\ infoFile = "backup-old"

Confirmed == Has(trace, "enter:CONFIRM") /\ proceed \in {<<"y">>, <<"Y">>}

Banner == "Milvus has been upgraded to cluster mode with Pulsar!"

\* C12 as stated: a run of the upgrade script whose initial confirmation was
\* answered "y" or "Y" never ends anywhere but after VERIFY and the final
\* banner, with status 0.
C12_FailSoftOnlyOneGate ==
  (script = "upgrade" /\ Confirmed /\ pc = "done")
    => (Has(trace, "exit:VERIFY") /\ Banner \in out /\ exitCode = 0)

\* C12 as amended: a run of the upgrade script whose initial confirmation was
\* answered "y" or "Y" ends after VERIFY and the final banner with status 0
\* whatever failed inside BACKUP, UPGRADE, RESTORE or VERIFY, except when the
\* backup failed and the operator declined at the backup-failure prompt:
\* then it ends with status 1 before UPGRADE.  The two prompts are the only
\* points where the pipeline stops early.
C12_FailSoftExceptBackupGate ==
  (script = "upgrade" /\ pc = "done") =>
    \/ ~Has(trace, "enter:CONFIRM") /\ exitCode = 1 /\ trace = << >>
    \/ Has(trace, "enter:CONFIRM") /\ ~Confirmed /\ exitCode = 0
    \/ /\ Confirmed /\ BackupFailed /\ continue_anyway \notin {<<"y">>, <<"Y">>}
       /\ exitCode = 1 /\ ~Has(trace, "enter:UPGRADE")
    \/ /\ Confirmed /\ (BackupFailed => continue_anyway \in {<<"y">>, <<"Y">>})
       /\ Has(trace, "exit:VERIFY") /\ Banner \in out /\ exitCode = 0

C12_Witness ==
  /\ script = "upgrade" /\ pc = "done" /\ Confirmed /\ Banner \in out
  /\ BackupFailed
  /\ "Error: UPGRADE FAILED" \in out
  /\ "timed out waiting for the condition" \in out
  /\ "Restoration may not have completed successfully." \in out

----------------------------------------------------------------------------
(* direct-eks-access: the aws-auth fallback *)

ApplyFailed == "error: kubectl apply of aws-auth failed" \in out

ManualMessages ==
  {"Failed to patch aws-auth ConfigMap. Manual intervention required.",
   "aws-auth ConfigMap doesn't exist and couldn't be created."}

\* C13: in direct-eks-access, once kubectl apply of the aws-auth ConfigMap has
\* failed, the script has looked the ConfigMap up; it has patched it when it
\* exists and printed the manual-intervention message when the patch failed
\* or the ConfigMap does not exist; and when the script has ended, it has run
\* the cluster access test (kubectl get nodes).
C13_ApplyFallback ==
  (script = "direct_access" /\ ApplyFailed) =>
    /\ "Trying alternative approach with kubectl patch..." \in out
    /\ Has(trace, "kubectl get configmap aws-auth")
    /\ \/ Has(trace, "kubectl patch configmap aws-auth")
       \/ ManualMessages \cap out # {}
    /\ pc = "done" => Has(trace, "kubectl get nodes")

----------------------------------------------------------------------------
(* Load-balancer identity wiring *)

Annotated == serviceAccount.roleArn # NoArn

\* C14: in every run of the load-balancer identity wiring, when the
\* ServiceAccount has been annotated with a role ARN the IAM role that ARN
\* names exists, and when kubectl rollout restart has been issued the
\* annotation has been applied.
C14_IrsaOrdering ==
  script \in IrsaScripts =>
    /\ Annotated => serviceAccount.roleArn \in iam
    /\ Has(trace, "kubectl rollout restart") => Annotated

----------------------------------------------------------------------------
(* Blocking waits *)

\* C15: no blocking wait of the upgrade orchestrator waits without a maximum
\* elapsed time: the script is never left waiting on a command whose awaited
\* condition (job complete, pods ready, restore container ended) does not
\* come; it has gone on or it has ended.
C15_BoundedWaits ==
  script = "upgrade" => pc # "blocked"

Returned(p) == runs[p].pc = "returned"

LastWriter(p) ==
  /\ Has(trace, <<p, "kubectl patch configmap aws-auth">>)
  /\ \A q \in ConcurrentRuns \ {p}, c \in {"kubectl patch configmap aws-auth",
                                            "kubectl apply -f aws-auth-cm.yaml"} :
       Has(trace, <<q, c>>)
         => IndexOf(trace, <<q, c>>) < IndexOf(trace, <<p, "kubectl patch configmap aws-auth">>)

\* C16: two concurrent runs of setup_eks_access for different IAM identities
\* can lose an update: nothing stops a run that holds a patch file from
\* sending it.  Whatever the ConfigMap holds by then (the other run may have
\* added its identity since the file was built), the patch step can replace
\* mapRoles by exactly the file's entries.
C16_LostUpdatePossible ==
  \A p \in ConcurrentRuns :
    (script = "prepare" /\ runs # << >> /\ runs[p].pc = "patch"
       /\ PatchWellFormed(runs[p].seen))
      => ENABLED (SetupPatch(p) /\ awsAuth'.mapRoles = runs[p].patch)

\* Both runs have returned, each one's patch was applied, and the ConfigMap
\* lacks the identity the first of them added.
C16_Witness ==
  /\ script = "prepare" /\ runs # << >>
  /\ \A p \in ConcurrentRuns : Returned(p) /\ runs[p].IAM_ARN = Caller(p)
  /\ \E p \in ConcurrentRuns :
       /\ LastWriter(p)
       /\ \E q \in ConcurrentRuns \ {p} :
            /\ Has(trace, <<q, "kubectl patch configmap aws-auth">>)
            /\ runs[p].rc = 0 /\ runs[q].rc = 0
            /\ Caller(q) \in runs[q].patch
            /\ Caller(q) \notin runs[p].patch
            /\ awsAuth.mapRoles = runs[p].patch
            /\ Caller(q) \notin awsAuth.mapRoles

WaitTimedOut == script = "deploy" /\ "error: timed out waiting for the condition" \in out

\* C17: in the deploy script, when kubectl wait for
\* deployment/aws-load-balancer-controller times out, the script prints the
\* 'Will continue anyway' warning and goes on to subnet tagging instead of
\* ending at the wait.
C17_WaitTimeoutContinues ==
  WaitTimedOut
    => /\ "Warning: Timed out waiting for AWS Load Balancer webhook to be ready. Will continue anyway." \in out
       /\ ~(pc = "done" /\ exitCode # 0
            /\ trace[Len(trace)] = "kubectl wait deployment/aws-load-balancer-controller --timeout=120s")

----------------------------------------------------------------------------
(* Properties of the jobs' connection loop and of the export *)

InConnectLoop == script \in Jobs /\ pc = "start"

ConnectFailed == script \in Jobs /\ pc = "done" /\ exitCode = 1

\* What the program slept before its loop, once the loop has been entered.
SleptBeforeLoop == IF script = "restore-job" THEN StartupSleep ELSE 0

\* C18: the connection loop of the backup job and of the restore job makes at
\* most 10 attempts and is left at the first success; consecutive attempts
\* are 5 seconds apart, with no wait after the last one; after the 10th
\* failure the job exits with status 1 and has neither listed nor touched a
\* collection.
C18_BoundedRetry ==
  script \in Jobs =>
    /\ attempt \in 0..(max_retries - 1)
    /\ InConnectLoop
         => /\ reachableAt[script] = 0 \/ reachableAt[script] > attempt
            /\ attempt = 0 => slept = 0
            /\ attempt > 0 => slept = SleptBeforeLoop + retry_interval * attempt
    /\ (~InConnectLoop /\ ~ConnectFailed)
         => /\ reachableAt[script] = attempt + 1
            /\ slept = SleptBeforeLoop + retry_interval * attempt
    /\ ConnectFailed
         => /\ attempt + 1 = max_retries
            /\ reachableAt[script] = 0
            /\ slept = SleptBeforeLoop + retry_interval * (max_retries - 1)
            /\ "Failed to connect to Milvus after multiple attempts" \in out
            /\ todo = << >>
            /\ script = "backup-job"
                 => /\ \A k \in DOMAIN s3 : s3[k] = NoObject
                    /\ db = dbAtBackup
                    /\ "Collections to backup:" \notin out
            /\ script = "restore-job"
                 => /\ db \in {[c \in CollSet |->
                                 IF c \in keep THEN dbAtBackup[c]
                                 ELSE IF c \in other THEN Present(OtherFields) ELSE Absent] :
                                 keep \in SUBSET CollSet, other \in SUBSET CollSet}
                    /\ "Collection restored successfully" \notin out
                    /\ "already exists, dropping it" \notin out

\* The backup job connected at its third attempt and the restore job gave up
\* after its tenth.
C18_Witness ==
  /\ script = "restore-job" /\ ConnectFailed
  /\ reachableAt["backup-job"] = 3
  /\ attempt = 9 /\ slept = 165

BackupJobSucceeded == script = "backup-job" /\ pc = "upgraded" /\ "Backup completed at" \in out

\* C19: when the backup job has ended successfully, every collection that
\* list_collections returned has its schema.json under the backup prefix, and
\* has an indexes.json there exactly when one of its fields has an index.
C19_BackupComplete ==
  BackupJobSucceeded
    => \A c \in CollSet :
         dbAtBackup[c].exists
           => /\ s3[<<c, "schema.json">>] = SchemaDict(dbAtBackup[c].fields)
              /\ s3[<<c, "indexes.json">>] # NoObject <=> IndexInfo(dbAtBackup[c]) # << >>

----------------------------------------------------------------------------
(* Properties of the UPGRADE stage *)

ReadinessTimedOut == script = "upgrade" /\ "timed out waiting for the condition" \in out

\* C20: when the wait for all pods to be ready times out after the helm
\* upgrade, the script has issued that wait once only, has printed the final
\* pod status after it, has not ended, and is at RESTORE or beyond.
C20_ReadinessTimeoutNonFatal ==
  ReadinessTimedOut
    => /\ Count(trace, "kubectl wait pod --all --timeout=600s") = 1
       /\ "Final pod status:" \in out
       /\ \E i \in 1..(Len(trace) - 2) :
            /\ trace[i] = "kubectl wait pod --all --timeout=600s"
            /\ trace[i + 1] = "kubectl get pods"
            /\ trace[i + 2] = "exit:UPGRADE"
       /\ pc = "restore" \/ Has(trace, "enter:RESTORE")

\* The wait timed out and the script has finished VERIFY with status 0.
C20_Witness ==
  /\ ReadinessTimedOut
  /\ Has(trace, "exit:VERIFY") /\ exitCode = 0

----------------------------------------------------------------------------
(* Properties of the main part of wait-for-milvus-endpoint *)

LambdaUpdateCalled == Has(trace, "aws lambda update-function-configuration")

\* C21: update-function-configuration is called only after wait_for_lb
\* returned 0 and the re-read endpoint is non-empty, and MILVUS_HOST is set to
\* exactly that endpoint; when wait_for_lb timed out or the re-read endpoint is
\* empty, the script exits 1 and the Lambda configuration is unchanged.
C21_UpdateOnlyWithEndpoint ==
  script = "wait-endpoint"
    => /\ LambdaUpdateCalled => ret = 0 /\ MILVUS_ENDPOINT # ""
       /\ lambdaHost # "unset" => LambdaUpdateCalled /\ lambdaHost = MILVUS_ENDPOINT
       /\ (pc = "done" /\ (ret = 1 \/ MILVUS_ENDPOINT = ""))
            => exitCode = 1 /\ lambdaHost = "unset" /\ ~LambdaUpdateCalled

\* wait_for_lb succeeded, the re-read gave nothing, and the script ended.
C21_Witness ==
  /\ script = "wait-endpoint" /\ pc = "done"
  /\ ret = 0 /\ MILVUS_ENDPOINT = "" /\ exitCode = 1
  /\ "Could not retrieve Milvus endpoint" \in out

UpdateLambdaFailed ==
  /\ script = "wait-endpoint" /\ pc = "done"
  /\ \/ "Could not find Lambda function from CloudFormation stack" \in out
     \/ "Failed to update Lambda environment variables" \in out

\* C28: when update_lambda fails (no Lambda name in the stack outputs, or
\* update-function-configuration non-zero), the script still prints the
\* deployment details and exits with status 0.
C28_UpdateFailureIgnored ==
  UpdateLambdaFailed => exitCode = 0 /\ "Milvus deployment details:" \in out

\* update-function-configuration was called and failed; the script ended.
C28_Witness ==
  /\ UpdateLambdaFailed /\ LambdaUpdateCalled
  /\ lambdaHost = "unset" /\ exitCode = 0

----------------------------------------------------------------------------
(* Properties of tag-eks-subnets *)

TaggingComplete ==
  script = "tag_subnets" /\ pc = "done" /\ "=== Subnet tagging complete ===" \in out

\* C22: after tag-eks-subnets completes, every subnet of the VPC carries the
\* cluster tag and exactly one of the two role tags: elb when its route table
\* has an internet-gateway route, internal-elb when it is associated with a
\* route table that has none.
C22_AllSubnetsTagged ==
  TaggingComplete
    => \A n \in 1..Len(vpcSubnets) :
         /\ ClusterTag \in subnetTags[n]
         /\ (ElbTag \in subnetTags[n]) # (InternalElbTag \in subnetTags[n])
         /\ vpcSubnets[n] = "public" => ElbTag \in subnetTags[n]
         /\ vpcSubnets[n] = "private" => InternalElbTag \in subnetTags[n]

----------------------------------------------------------------------------
(* Properties of the aws-auth writes of fix-eks-access and direct-eks-access *)

\* fix-eks-access or direct-eks-access changes an aws-auth ConfigMap that exists.
AuthMapUpdated ==
  /\ script \in {"fix_access", "direct_access"}
  /\ awsAuth.exists /\ awsAuth' # awsAuth

\* C23: when fix-eks-access or direct-eks-access updates an existing aws-auth
\* ConfigMap, each key it writes holds afterwards only what the script wrote:
\* mapUsers lists the admin user alone, and for fix-eks-access mapRoles lists
\* at most the temporary admin role; no earlier entry of a written key stays.
C23_WrittenKeysReplaced ==
  [][AuthMapUpdated
       => /\ awsAuth'.mapUsers = {AdminUser}
          /\ script = "fix_access" => awsAuth'.mapRoles \subseteq {StampedRole(clock)}]_vars

\* fix-eks-access patched an existing ConfigMap: the node role it mapped is gone.
C23_Witness ==
  /\ script = "fix_access" /\ pc = "verify"
  /\ \E i \in 1..Len(trace) : trace[i] = "kubectl patch configmap aws-auth"
  /\ awsAuth = ConfigMap({StampedRole(clock)}, {AdminUser})

----------------------------------------------------------------------------
(* Properties of the backup information file *)

RestoreJobApplied == Has(trace, "kubectl apply -f milvus-restore-job.yaml")

\* C24: RESTORE is skipped exactly when milvus-backup-info.env is absent and
\* otherwise applies the restore job on the path the file holds; the file
\* holds this run's path only when this run's backup job succeeded; so after
\* a failed backup answered with continue, RESTORE runs from the path an
\* earlier run left in the file.
C24_RestoreFromInfoFile ==
  /\ (script = "upgrade" /\ Has(trace, "enter:RESTORE"))
       => IF infoFile = "none"
            THEN /\ ~RestoreJobApplied
                 /\ "No backup information found. Skipping restoration." \in out
            ELSE /\ RestoreJobApplied
                 /\ RestoreSource(infoFile) \in out
                 /\ "No backup information found. Skipping restoration." \notin out
  /\ (script = "upgrade" /\ infoFile = "backup-new")
       => jobStatus /\ Has(trace, "exit:BACKUP")
  /\ (script = "upgrade" /\ Has(trace, "exit:BACKUP") /\ ~jobStatus)
       => infoFile \in {"none", "backup-old"}

\* The backup failed, the operator continued, and RESTORE ran from the path of
\* an earlier run.
C24_Witness ==
  /\ script = "upgrade" /\ Has(trace, "exit:RESTORE")
  /\ ~jobStatus /\ MatchesYes(continue_anyway)
  /\ infoFile = "backup-old" /\ RestoreJobApplied
  /\ RestoreSource("backup-old") \in out

----------------------------------------------------------------------------
(* Properties of the restore loop *)

RestoreErrorPrinted == script = "restore-job" /\ "Error during restoration" \in out

\* C25: once a call of the restore loop raised, the job has ended with status
\* 0 and the error message; the collection being restored and all later ones
\* remain unprocessed, the later ones exactly as they were, and when the call
\* that raised came after the drop the collection is left absent.
C25_ErrorEndsRestore ==
  RestoreErrorPrinted
    => /\ pc = "done" /\ exitCode = 0
       /\ "Restore completed" \notin out
       /\ todo # << >>
       /\ \A i \in 2..Len(todo) : db[todo[i]] = dbAtRestore[todo[i]]
       /\ <<Head(todo), "download_file">> \in raises => db[Head(todo)] = dbAtRestore[Head(todo)]
       /\ <<Head(todo), "Collection">> \in raises => ~db[Head(todo)].exists

\* Creating the first collection raised after its drop: it is gone, and the
\* second collection of the backup was never reached.
C25_Witness ==
  /\ RestoreErrorPrinted /\ pc = "done" /\ exitCode = 0
  /\ todo = <<"docs", "imgs">>
  /\ dbAtRestore["docs"].exists /\ ~db["docs"].exists
  /\ s3[<<"imgs", "schema.json">>] # NoObject /\ db["imgs"] = dbAtRestore["imgs"]

\* C26: the restore job leaves alone every collection for which the backup
\* holds no schema.json, whether the backup has no key for it at all or only
\* an indexes.json; such a manifest entry is reported and skipped.
C26_RestoreFrame ==
  script = "restore-job"
    => \A c \in CollSet :
         s3[<<c, "schema.json">>] = NoObject => db[c] = dbAtRestore[c]

\* The job ran to its end over a backup that restored docs, that holds only
\* an indexes.json for imgs, and imgs exists as it did.
C26_Witness ==
  /\ script = "restore-job" /\ pc = "done" /\ "Restore completed" \in out
  /\ "Schema file not found" \in out
  /\ s3[<<"imgs", "schema.json">>] = NoObject /\ s3[<<"imgs", "indexes.json">>] # NoObject
  /\ db["imgs"].exists /\ db["imgs"] = dbAtRestore["imgs"]
  /\ db["docs"] # dbAtRestore["docs"]

----------------------------------------------------------------------------
(* Properties of a failed helm upgrade *)

HelmFailed == script = "upgrade" /\ "Error: UPGRADE FAILED" \in out

\* C27: a failed helm upgrade does not stop the pipeline: the fixed sleep and
\* the readiness wait have run, UPGRADE has ended and the script is in or
\* past RESTORE, which applies the restore job whenever backup information
\* exists; a run that has ended has passed VERIFY, printed the banner and
\* exited 0.
C27_HelmFailureContinues ==
  HelmFailed
    => /\ Has(trace, "sleep 120")
       /\ Has(trace, "kubectl wait pod --all --timeout=600s")
       /\ Has(trace, "exit:UPGRADE")
       /\ pc \in {"restore", "blocked", "verify", "done"}
       /\ (pc # "restore" /\ infoFile # "none") => RestoreJobApplied
       /\ pc = "done" => /\ Has(trace, "exit:RESTORE") /\ Has(trace, "exit:VERIFY")
                         /\ Banner \in out /\ exitCode = 0

\* helm upgrade failed; the restore job was applied all the same and the
\* script ended with the banner and status 0.
C27_Witness ==
  /\ HelmFailed /\ pc = "done" /\ exitCode = 0
  /\ RestoreJobApplied /\ Has(trace, "exit:VERIFY") /\ Banner \in out

----------------------------------------------------------------------------
(* Properties of setup_eks_access run again by the same caller *)

\* The run of the caller has returned, every call it made reached the API
\* server, and its identity was known.
RunReturned ==
  /\ script = "prepare" /\ pc = "setup_eks_access" /\ DOMAIN runs = {1}
  /\ runs[1].pc = "returned"
  /\ runs[1].IAM_ARN = Caller(1)
  /\ runs[1].err # "Unable to connect to the server"

\* C29: a run of setup_eks_access sends a patch only when the caller's ARN is
\* not in mapRoles, the patch leaves mapRoles with the entries it had plus the
\* caller's, and after every run, the first or a later one, mapRoles holds
\* the caller's ARN.
C29_IdempotentAuthMap ==
  RunReturned
    => /\ Caller(1) \in awsAuth.mapRoles
       /\ Has(trace, <<1, "kubectl patch configmap aws-auth">>)
            => /\ Caller(1) \notin runs[1].seen
               /\ awsAuth.mapRoles = runs[1].seen \cup {Caller(1)}

----------------------------------------------------------------------------
(* Properties of the IRSA wiring on an existing role *)

\* The run found the role: it took the branch that reads the role's ARN.
RoleFound == script = "lb_irsa" /\ Has(trace, "aws iam get-role --query Role.Arn")

\* C30: when AmazonEKSLoadBalancerControllerRole exists, the IRSA wiring
\* calls neither create-role nor attach-role-policy nor an update of the
\* trust policy, no step of the run changes the role's attachments, and the
\* ServiceAccount it applies is annotated with that role, attached or not.
C30_ExistingRoleFrame ==
  /\ [](RoleFound
          => /\ ~Has(trace, "aws iam create-role")
             /\ ~Has(trace, "aws iam attach-role-policy")
             /\ ~Has(trace, "aws iam update-assume-role-policy")
             /\ LbRole \in iam
             /\ Annotated => serviceAccount.roleArn = LbRole)
  /\ [][(script = "lb_irsa" /\ LbRole \in iam) => attached' = attached]_vars

\* A complete run on a role that had no policy attached: the role still has
\* none, and the ServiceAccount names it.
C30_Witness ==
  /\ RoleFound /\ pc = "done" /\ exitCode = 0
  /\ LbPolicy \in iam /\ <<LbRole, LbPolicy>> \notin attached
  /\ serviceAccount.roleArn = LbRole

====
